---- MODULE Spec2Model ----
(***************************************************************************)
(* A model of the module execution engine of atomic-synth: the condition   *)
(* evaluator, the transition strategies, the state kinds, the seeded       *)
(* random stream and ModuleEngine (construction, clone, process,           *)
(* validate); and of the loading layer: deep copies of definitions,        *)
(* ModuleOverrideManager, LazyModuleSupplier and ModuleLoader.             *)
(*                                                                         *)
(* JavaScript values are records [t, v]: t is the typeof tag and v an      *)
(* integer payload (the number, 0/1 for a boolean, an index for a string   *)
(* or an object).  Times are integer milliseconds.  Weights of Distributed *)
(* transitions are integers in units of 1/WeightScale.  32-bit quantities  *)
(* of the random stream are kept as two 16-bit limbs [hi, lo].             *)
(***************************************************************************)
EXTENDS Integers, Sequences, FiniteSets, TLC

VARIABLES
    engines,     \* the ModuleEngine objects constructed so far (a sequence)
    instances,   \* runtime fields of the State objects each constructor built
    persons,     \* the entities: seed, demographics, attributes, record, contexts
    nextId,      \* source of fresh entry identifiers
    lastCall,    \* what the most recent operation was and how it ended
    log,         \* per person, the (engine, time) of the process calls made
    probe        \* input and output of the last direct call of a pure function

vars == <<engines, instances, persons, nextId, lastCall, log, probe>>

(***************************************************************************)
(* Values                                                                  *)
(***************************************************************************)
Undefined == [t |-> "undefined", v |-> 0]
Num(n) == [t |-> "number", v |-> n]
Bool(b) == [t |-> "boolean", v |-> IF b THEN 1 ELSE 0]
Str(k) == [t |-> "string", v |-> k]
Obj(k) == [t |-> "object", v |-> k]

\* !x of JavaScript for the values the model holds (strings are non-empty)
Falsy(x) ==
    \/ x.t = "undefined"
    \/ x.t = "null"
    \/ (x.t = "number" /\ x.v = 0)
    \/ (x.t = "boolean" /\ x.v = 0)

\* a === b
StrictEq(a, b) == a.t = b.t /\ a.v = b.v

\* Number(x): ok is FALSE for NaN.  Non-numeric strings and objects are NaN.
ToNumber(x) ==
    CASE x.t = "number" -> [ok |-> TRUE, n |-> x.v]
      [] x.t = "boolean" -> [ok |-> TRUE, n |-> x.v]
      [] x.t = "null" -> [ok |-> TRUE, n |-> 0]
      [] OTHER -> [ok |-> FALSE, n |-> 0]

Has(r, k) == k \in DOMAIN r

(***************************************************************************)
(* Condition evaluator.  A result is "true", "false" or "error" (a throw). *)
(***************************************************************************)
B(b) == IF b THEN "true" ELSE "false"

MsPerDay == 86400000

\* evaluateNumericCondition(value, operator, target)
evaluateNumericCondition(value, operator, target) ==
    LET nv == ToNumber(value)
        nt == ToNumber(target)
    IN  IF ~nv.ok \/ ~nt.ok THEN "false"
        ELSE CASE operator = "<" -> B(nv.n < nt.n)
               [] operator = "<=" -> B(nv.n <= nt.n)
               [] operator = ">" -> B(nv.n > nt.n)
               [] operator = ">=" -> B(nv.n >= nt.n)
               [] operator = "==" -> B(nv.n = nt.n)
               [] operator = "!=" -> B(nv.n # nt.n)
               [] operator = "is nil" -> B(value.t \in {"null", "undefined"})
               [] operator = "is not nil" -> B(value.t \notin {"null", "undefined"})
               [] OTHER -> "error"

LimbBase == 65536

\* x * m as two limbs <<hi, lo>>, 0 <= lo < LimbBase: the products of the
\* age evaluator do not fit in 32 bits

Scaled(x, m) ==
    LET hi == (x \div LimbBase) * m
        lo == (x % LimbBase) * m
    IN  <<hi + (lo \div LimbBase), lo % LimbBase>>

\* the sign of a * b - c * d
CompareProducts(a, b, c, d) ==
    LET l == Scaled(a, b)
        r == Scaled(d, c)
    IN  IF l[1] # r[1] THEN (IF l[1] < r[1] THEN -1 ELSE 1)
        ELSE IF l[2] < r[2] THEN -1 ELSE IF l[2] > r[2] THEN 1 ELSE 0

\* convertToYears(quantity, unit) = quantity / divisor with divisor 1, 12,
\* 52.25 or 365.25: the quantity with four times the divisor; den4 = 0: a throw
convertToYears(quantity, unit) ==
    [num |-> quantity,
     den4 |-> CASE unit = "years" -> 4
                [] unit = "months" -> 48
                [] unit = "weeks" -> 209
                [] unit = "days" -> 1461
                [] OTHER -> 0]

DaysPerYear4 == 1461

\* evaluateAgeCondition: ageInMs / (365.25 * MsPerDay)  op  quantity / divisor.
\* Both sides are multiplied by divisor * 365.25 * MsPerDay, which keeps the
\* comparison in integers: ageInMs * den4  op  quantity * 1461 * MsPerDay;
\* evaluateNumericCondition gets two numbers in the same order relation.
evaluateAgeCondition(c, person, time) ==
    LET ageInMs == time - person.birthDate
        targetAge == convertToYears(c.quantity, IF Has(c, "unit") THEN c.unit ELSE "years")
    IN  IF targetAge.den4 = 0 THEN "error"
        ELSE evaluateNumericCondition(
                 Num(CompareProducts(ageInMs, targetAge.den4,
                                     targetAge.num * DaysPerYear4, MsPerDay)),
                 c.operator, Num(0))

evaluateGenderCondition(c, person) == B(person.gender = c.gender)

AttrGet(person, k) ==
    IF k \in DOMAIN person.attributes THEN person.attributes[k] ELSE Undefined

evaluateAttributeCondition(c, person) ==
    LET attributeValue == AttrGet(person, c.attribute)
    IN  IF Has(c, "operator")
        THEN evaluateNumericCondition(attributeValue, c.operator,
                                      IF Has(c, "value") THEN c.value ELSE Undefined)
        ELSE B(StrictEq(attributeValue, IF Has(c, "value") THEN c.value ELSE Undefined))

RECURSIVE evaluateCondition(_, _, _)
RECURSIVE EveryCond(_, _, _, _)
RECURSIVE SomeCond(_, _, _, _)

\* Array.every: stops at the first false; a throw propagates
\* codesMatch(codes1, codes2): some coding of the entry has the system and
\* the code of some given coding; false when either side is missing.  An
\* entry's codes are held as the list of its codings.
codesMatch(entry, c) ==
    /\ Has(entry, "codes")
    /\ Has(c, "codes")
    /\ \E i \in 1..Len(entry.codes), j \in 1..Len(c.codes) :
          /\ entry.codes[i].system = c.codes[j].system
          /\ entry.codes[i].code = c.codes[j].code

\* !entry.endTime || entry.endTime > time: an end of 0 counts as no end
StillOpen(entry, time) ==
    \/ ~Has(entry, "endTime")
    \/ entry.endTime = 0
    \/ entry.endTime > time

evaluateActiveCondition(c, person, time) ==
    B(\E i \in 1..Len(person.record.conditions) :
        LET cond == person.record.conditions[i]
        IN  /\ codesMatch(cond, c)
            /\ cond.clinicalStatus = "active"
            /\ cond.startTime <= time
            /\ StillOpen(cond, time))

evaluateActiveMedication(c, person, time) ==
    B(\E i \in 1..Len(person.record.medications) :
        LET med == person.record.medications[i]
        IN  /\ codesMatch(med, c)
            /\ med.startTime <= time
            /\ StillOpen(med, time))

EveryCond(cs, i, person, time) ==
    IF i > Len(cs) THEN "true"
    ELSE LET r == evaluateCondition(cs[i], person, time)
         IN  IF r = "true" THEN EveryCond(cs, i + 1, person, time) ELSE r

\* Array.some: stops at the first true; a throw propagates
SomeCond(cs, i, person, time) ==
    IF i > Len(cs) THEN "false"
    ELSE LET r == evaluateCondition(cs[i], person, time)
         IN  IF r = "false" THEN SomeCond(cs, i + 1, person, time) ELSE r

evaluateCondition(c, person, time) ==
    CASE c.condition_type = "Age" -> evaluateAgeCondition(c, person, time)
      [] c.condition_type = "Gender" -> evaluateGenderCondition(c, person)
      [] c.condition_type = "Attribute" -> evaluateAttributeCondition(c, person)
      [] c.condition_type = "Active Condition" -> evaluateActiveCondition(c, person, time)
      [] c.condition_type = "Active Medication" -> evaluateActiveMedication(c, person, time)
      [] c.condition_type = "And" -> EveryCond(c.conditions, 1, person, time)
      [] c.condition_type = "Or" -> SomeCond(c.conditions, 1, person, time)
      [] c.condition_type = "Not" ->
            LET r == evaluateCondition(c.condition, person, time)
            IN  IF r = "error" THEN r ELSE B(r = "false")
      [] c.condition_type = "True" -> "true"
      [] c.condition_type = "False" -> "false"
      [] OTHER -> "error"

(***************************************************************************)
(* Random stream: the linear congruential generator of Random.random       *)
(***************************************************************************)
LcgA == 1664525
LcgC == 1013904223
Limbs(n) == [hi |-> n \div LimbBase, lo |-> n % LimbBase]

\* this.seed = (a * this.seed + c) % 2^32, on limbs
RandomNext(s) ==
    LET al == LcgA % LimbBase
        ah == LcgA \div LimbBase
        low == al * s.lo + (LcgC % LimbBase)
        high == ah * s.lo + al * s.hi + (LcgC \div LimbBase) + (low \div LimbBase)
    IN  [hi |-> high % LimbBase, lo |-> low % LimbBase]

\* a stream seeded with the person's identifier, scrambled
RandomFromId(person) == RandomNext(RandomNext(Limbs(person.id)))

\* Random.fromPerson(person): a new stream seeded with person.seed
RandomFromPerson(person) == Limbs(person.seed)

(***************************************************************************)
(* Transition strategies.  follow returns [kind, target]: kind is "target",*)
(* "null" (no option matched) or "error" (a condition threw).              *)
(***************************************************************************)
WeightScale == 10000
WeightTolerance == 10

Target(n) == [kind |-> "target", target |-> n]
NoTarget == [kind |-> "null", target |-> ""]
FollowError == [kind |-> "error", target |-> ""]

RECURSIVE SumWeights(_, _)
SumWeights(options, i) ==
    IF i > Len(options) THEN 0 ELSE options[i].distribution + SumWeights(options, i + 1)

Abs(n) == IF n < 0 THEN -n ELSE n

\* the check of the DistributedTransition constructor (and of validate)
WeightsOk(options) == ~(Abs(SumWeights(options, 1) - WeightScale) > WeightTolerance)

\* cumulativeProbabilities[i]
Cumulative(options, i) == SumWeights(SubSeq(options, 1, i), 1)

\* value <= cum, where value = seed / 2^32 and cum is in units of 1/WeightScale:
\*   seed * WeightScale <= cum * LimbBase * LimbBase
DrawAtMost(s, cum) ==
    LET q == s.hi * WeightScale + ((s.lo * WeightScale) \div LimbBase)
        r == (s.lo * WeightScale) % LimbBase
    IN  q < cum * LimbBase \/ (q = cum * LimbBase /\ r = 0)

RECURSIVE DistributedPick(_, _, _)
DistributedPick(options, value, i) ==
    IF i > Len(options) THEN options[Len(options)].transition
    ELSE IF DrawAtMost(value, Cumulative(options, i)) THEN options[i].transition
    ELSE DistributedPick(options, value, i + 1)

\* DistributedTransition.follow
DistributedFollow(options, person, time) ==
    LET random == RandomFromPerson(person)
        value == RandomNext(random)
    IN  Target(DistributedPick(options, value, 1))

\* the last option whose condition is absent or true
RECURSIVE ConditionalPickLast(_, _, _, _)
ConditionalPickLast(options, i, person, time) ==
    IF i > Len(options) THEN NoTarget
    ELSE LET rest == ConditionalPickLast(options, i + 1, person, time)
             r == IF Has(options[i], "condition")
                  THEN evaluateCondition(options[i].condition, person, time)
                  ELSE "true"
         IN  IF rest.kind # "null" THEN rest
             ELSE IF r = "true" THEN Target(options[i].transition)
             ELSE IF r = "error" THEN FollowError ELSE NoTarget

RECURSIVE ConditionalPick(_, _, _, _)
ConditionalPick(options, i, person, time) ==
    IF i > Len(options) THEN NoTarget
    ELSE LET r == IF Has(options[i], "condition")
                  THEN evaluateCondition(options[i].condition, person, time)
                  ELSE "true"
         IN  CASE r = "true" -> Target(options[i].transition)
               [] r = "error" -> FollowError
               [] OTHER -> ConditionalPick(options, i + 1, person, time)

\* ConditionalTransition.follow
ConditionalFollow(options, person, time) == ConditionalPick(options, 1, person, time)

RECURSIVE ComplexPick(_, _, _, _)
ComplexPick(options, i, person, time) ==
    IF i > Len(options) THEN NoTarget
    ELSE LET o == options[i]
             r == IF Has(o, "condition")
                  THEN evaluateCondition(o.condition, person, time)
                  ELSE "true"
         IN  CASE r = "error" -> FollowError
               [] r = "true" /\ Has(o, "distributions") ->
                     DistributedFollow(o.distributions, person, time)
               [] r = "true" /\ ~Has(o, "distributions") /\ Has(o, "transition") ->
                     Target(o.transition)
               [] OTHER -> ComplexPick(options, i + 1, person, time)

\* ComplexTransition.follow
ComplexFollow(options, person, time) == ComplexPick(options, 1, person, time)

\* createTransition: which strategy a definition gets ("none" when it has none)
TransitionKind(def) ==
    IF Has(def, "direct_transition") THEN "direct"
    ELSE IF Has(def, "conditional_transition") THEN "conditional"
    ELSE IF Has(def, "distributed_transition") THEN "distributed"
    ELSE IF Has(def, "complex_transition") THEN "complex"
    ELSE "none"

\* state.transition.follow(person, time)
Follow(def, person, time) ==
    CASE TransitionKind(def) = "direct" -> Target(def.direct_transition)
      [] TransitionKind(def) = "conditional" ->
            ConditionalFollow(def.conditional_transition, person, time)
      [] TransitionKind(def) = "distributed" ->
            DistributedFollow(def.distributed_transition, person, time)
      [] TransitionKind(def) = "complex" ->
            ComplexFollow(def.complex_transition, person, time)

\* whether createTransition(def) throws: a Distributed weight set, top-level
\* or nested in a Complex option, that does not sum to 1.0
TransitionThrows(def) ==
    CASE TransitionKind(def) = "distributed" -> ~WeightsOk(def.distributed_transition)
      [] TransitionKind(def) = "complex" ->
            \E i \in 1..Len(def.complex_transition) :
                /\ Has(def.complex_transition[i], "distributions")
                /\ ~WeightsOk(def.complex_transition[i].distributions)
      [] OTHER -> FALSE

(***************************************************************************)
(* State kinds.  The runtime fields of a State object are rt = [entered,   *)
(* next, entry]; process returns [cont, person, rt, nextId] where cont is  *)
(* "true" (advance), "false" (stall) or "error" (a throw).                 *)
(***************************************************************************)
FreshRt == [entered |-> Undefined, next |-> Undefined, entry |-> Undefined]

RegisteredTypes ==
    {"Initial", "Terminal", "Simple", "Delay", "Guard", "Encounter",
     "ConditionOnset", "SetAttribute"}

Result(cont, person, rt, id) == [cont |-> cont, person |-> person, rt |-> rt, nextId |-> id]

\* the key of the attribute store under which the run context of the
\* module named name is kept: `module_context_${this.module.name}`
ContextAttribute(name) == "module_context_" \o name

\* person.attributes.set(k, val).  person.ctx holds the entries of the
\* attribute store that are run contexts, by module name: a set under the
\* key of a run context replaces that context by val
AttrSet(person, k, val) ==
    [person EXCEPT !.attributes =
                       [a \in DOMAIN person.attributes \cup {k} |->
                           IF a = k THEN val ELSE person.attributes[a]],
                   !.ctx = LET kept == {x \in DOMAIN person.ctx : ContextAttribute(x) # k}
                           IN  IF kept = DOMAIN person.ctx THEN person.ctx
                               ELSE IF kept = {} THEN <<>>
                               ELSE [n \in kept |-> person.ctx[n]]]

\* convertToMs of the Delay state.  The factors of 'months' and 'years' exceed
\* 32-bit integers and are not among the units the model's inputs use; a
\* Delay's range (a random duration) is not among them either.
KnownUnit(unit) == unit \in {"seconds", "minutes", "hours", "days", "weeks"}

convertToMs(value, unit) ==
    CASE unit = "weeks" -> value * 7 * 24 * 60 * 60 * 1000
      [] unit = "days" -> value * 24 * 60 * 60 * 1000
      [] unit = "hours" -> value * 60 * 60 * 1000
      [] unit = "minutes" -> value * 60 * 1000
      [] unit = "seconds" -> value * 1000

InitialProcess(def, rt, person, time, id) == Result("true", person, rt, id)

\* a Terminal state that advances like any other state
TerminalAdvances(def, rt, person, time, id) == Result("true", person, rt, id)

TerminalProcess(def, rt, person, time, id) == Result("false", person, rt, id)

SimpleProcess(def, rt, person, time, id) == Result("true", person, rt, id)

GuardProcess(def, rt, person, time, id) ==
    IF ~Has(def, "allow") THEN Result("true", person, rt, id)
    ELSE Result(evaluateCondition(def.allow, person, time), person, rt, id)

\* the test that ends DelayState.process: time >= (this.next || time)
DelayElapsed(rt, time) == time >= (IF Falsy(rt.next) THEN time ELSE rt.next.v)

DelayProcess(def, rt, person, time, id) ==
    IF Falsy(rt.entered)
    THEN LET rt1 == [rt EXCEPT !.entered = Num(time)]
         IN  IF Has(def, "exact")
             THEN IF ~KnownUnit(def.exact.unit) THEN Result("error", person, rt1, id)
                  ELSE LET rt2 == [rt1 EXCEPT !.next =
                                      Num(time + convertToMs(def.exact.quantity, def.exact.unit))]
                       IN  Result(B(DelayElapsed(rt2, time)), person, rt2, id)
             ELSE Result("true", person, rt1, id)
    ELSE Result(B(DelayElapsed(rt, time)), person, rt, id)

SetAttributeProcess(def, rt, person, time, id) ==
    Result("true",
           AttrSet(person, def.attribute, IF Has(def, "value") THEN def.value ELSE Undefined),
           rt, id)

DefaultEncounterCodes == <<[system |-> "SNOMED-CT", code |-> "308646001"]>>
DefaultConditionCodes == <<[system |-> "SNOMED-CT", code |-> "367498001"]>>

\* record.conditions.find(c => c.codes.coding.some(code => code.code === reason))
FindReason(conditions, reason) ==
    LET hits == {i \in 1..Len(conditions) :
                    \E k \in 1..Len(conditions[i].codes) : conditions[i].codes[k].code = reason}
    IN  IF hits = {} THEN <<>>
        ELSE conditions[CHOOSE i \in hits : \A j \in hits : i <= j].codes

\* an Encounter state that puts the new entry at the front of the collection
EncounterPrepends(def, rt, person, time, id) ==
    LET encounter ==
            [id |-> id, type |-> "Encounter", startTime |-> time,
             encounterClass |-> IF Has(def, "encounter_class") THEN def.encounter_class
                                ELSE "ambulatory",
             codes |-> IF Has(def, "codes") THEN def.codes ELSE DefaultEncounterCodes,
             reason |-> IF Has(def, "reason")
                        THEN FindReason(person.record.conditions, def.reason) ELSE <<>>]
        p1 == [person EXCEPT !.record.encounters = <<encounter>> \o @]
    IN  Result("true", AttrSet(p1, "current_encounter", Obj(id)),
               [rt EXCEPT !.entry = Obj(id)], id + 1)

EncounterProcess(def, rt, person, time, id) ==
    LET encounter ==
            [id |-> id, type |-> "Encounter", startTime |-> time,
             encounterClass |-> IF Has(def, "encounter_class") THEN def.encounter_class
                                ELSE "ambulatory",
             codes |-> IF Has(def, "codes") THEN def.codes ELSE DefaultEncounterCodes,
             reason |-> IF Has(def, "reason")
                        THEN FindReason(person.record.conditions, def.reason) ELSE <<>>]
        p1 == [person EXCEPT !.record.encounters = Append(@, encounter)]
    IN  Result("true", AttrSet(p1, "current_encounter", Obj(id)),
               [rt EXCEPT !.entry = Obj(id)], id + 1)

ConditionOnsetProcess(def, rt, person, time, id) ==
    LET condition ==
            [id |-> id, type |-> "Condition", startTime |-> time,
             clinicalStatus |-> "active",
             codes |-> IF Has(def, "codes") THEN def.codes ELSE DefaultConditionCodes]
        p1 == [person EXCEPT !.record.conditions = Append(@, condition)]
        p2 == IF Has(def, "assign_to_attribute")
              THEN AttrSet(p1, def.assign_to_attribute, Obj(id)) ELSE p1
    IN  Result("true", p2, [rt EXCEPT !.entry = Obj(id)], id + 1)

\* state.process(person, time), dispatched on the type the registry built
StateProcess(def, rt, person, time, id) ==
    CASE def.type = "Initial" -> InitialProcess(def, rt, person, time, id)
      [] def.type = "Terminal" -> TerminalProcess(def, rt, person, time, id)
      [] def.type = "Simple" -> SimpleProcess(def, rt, person, time, id)
      [] def.type = "Guard" -> GuardProcess(def, rt, person, time, id)
      [] def.type = "Delay" -> DelayProcess(def, rt, person, time, id)
      [] def.type = "SetAttribute" -> SetAttributeProcess(def, rt, person, time, id)
      [] def.type = "Encounter" -> EncounterProcess(def, rt, person, time, id)
      [] def.type = "ConditionOnset" -> ConditionOnsetProcess(def, rt, person, time, id)

(***************************************************************************)
(* ModuleEngine.  An engine is [module, isClone, states]; module is the    *)
(* definition [name, order, states] (order: the insertion order of the     *)
(* keys of module.states) and states maps a state name to the engine whose *)
(* constructor built that State object.  instances[o][n] holds the runtime *)
(* fields of the State object that engine o's constructor built for n.     *)
(* A run context is [history, cur]; cur is a handle [name, eng, shared,    *)
(* rt]: the State object built for name from the definition held by engine *)
(* eng, either the engine's own object (shared) or a clone of it whose     *)
(* runtime fields rt travel with the context.  eng = 0: no current state.  *)
(***************************************************************************)
maxIterations == 1000

NoStep == [name |-> "", eng |-> 0, cont |-> ""]

\* what the 'State ... not found in module ...' error names
NoMissing == [state |-> "", module |-> ""]

NoState == [name |-> "", eng |-> 0, shared |-> FALSE, rt |-> FreshRt]

NamesOf(module) == {module.order[i] : i \in 1..Len(module.order)}

\* whether new ModuleEngine(module) throws: createState on an unregistered
\* type, or createTransition on a bad weight set
\* a constructor that creates a state whatever its type
ConstructorSkipsRegistry(module) ==
    \E n \in NamesOf(module) : TransitionThrows(module.states[n])

ConstructorThrows(module) ==
    \E n \in NamesOf(module) :
        \/ module.states[n].type \notin RegisteredTypes
        \/ TransitionThrows(module.states[n])

\* new ModuleEngine(module, isClone), as engine number id
\* what the constructor throws: the error of the first state, in the order
\* of the definition, that createState or its transition rejects
RECURSIVE ConstructorError(_, _)
ConstructorError(module, i) ==
    LET name == module.order[i]
    IN  IF module.states[name].type \notin RegisteredTypes
        THEN [kind |-> "unknown type", state |-> name, target |-> module.states[name].type]
        ELSE IF TransitionThrows(module.states[name])
        THEN [kind |-> "transition", state |-> name, target |-> ""]
        ELSE ConstructorError(module, i + 1)

NewEngine(module, isClone, id) ==
    [module |-> module, isClone |-> isClone,
     states |-> [n \in NamesOf(module) |-> id]]

NewInstances(module) == [n \in NamesOf(module) |-> FreshRt]

\* JSON.parse(JSON.stringify(module)): the model's definitions hold only
\* strings, numbers, booleans, lists and records, which survive unchanged,
\* in the same key order
JsonCopy(module) ==
    [name |-> module.name, order |-> module.order,
     states |-> [n \in NamesOf(module) |-> module.states[n]]]

\* a clone that hands out the State objects of the engine it was cloned from
CloneSharing(eng, id) == [module |-> eng.module, isClone |-> TRUE, states |-> eng.states]

\* ModuleEngine.clone(): a new engine, number id, on a deep copy of the module
CloneEngine(eng, id) == NewEngine(JsonCopy(eng.module), TRUE, id)

\* findInitialState: the first state, in insertion order, of type Initial
InitialIndexes(module) ==
    {i \in 1..Len(module.order) : module.states[module.order[i]].type = "Initial"}

findInitialState(module) ==
    IF InitialIndexes(module) = {} THEN ""
    ELSE module.order[CHOOSE i \in InitialIndexes(module) :
                          \A j \in InitialIndexes(module) : i <= j]

\* a run context that always gets the engine's own State object
HandleShared(eng, name) ==
    [name |-> name, eng |-> eng.states[name], shared |-> TRUE, rt |-> FreshRt]

\* this.isClone ? state : state.clone()
HandleFor(eng, name) ==
    [name |-> name, eng |-> eng.states[name], shared |-> eng.isClone, rt |-> FreshRt]

contextKey(module) == module.name

MaxTrace == 16

NewContext ==
    [history |-> <<>>, cur |-> NoState, arrived |-> 0, picks |-> <<>>, trace |-> <<>>]

InSeq(seq, x) == \E i \in 1..Len(seq) : seq[i] = x

\* a state that was recorded on being processed, whatever it returned
HistoryOnEntry(history, name, cont) ==
    IF InSeq(history, name) THEN history ELSE Append(history, name)

\* a push at every advance, without the test for a name already recorded
HistoryEveryAdvance(history, name, cont) ==
    IF cont # "true" THEN history ELSE Append(history, name)

\* if (!context.history.includes(state.name)) context.history.push(state.name),
\* reached only when the state's process returned true
HistoryAfter(history, name, cont) ==
    IF cont # "true" \/ InSeq(history, name) THEN history ELSE Append(history, name)

\* The walk of one process call: w = [person, inst, ctx, iterations, running,
\* outcome, nextId, last, sawTerminal, advanced].  last is the state processed
\* last in this call with what it returned; sawTerminal tells whether a state
\* of type Terminal was processed; advanced is the set of the names of the
\* states whose process returned true in this call.  ctx.arrived is the time
\* of the call that moved the current-state pointer to where it is, and
\* ctx.picks lists the states that made a weighted draw so far, each with
\* the target chosen, and
\* ctx.trace the name of the state of every advance so far, in order, for
\* the first MaxTrace advances of the run.
DefOf(h) == engines[h.eng].module.states[h.name]

RtOf(w, h) == IF h.shared THEN w.inst[h.eng][h.name] ELSE h.rt

\* the end of an iteration whose state advanced and whose transition
\* returned next: the lookup of the target and the move of the pointer
AfterFollow(w2, e, time, state, def, next) ==
    CASE next.kind = "error" ->
            [w2 EXCEPT !.running = FALSE, !.outcome = "error: condition"]
      [] next.kind = "null" ->
            [w2 EXCEPT !.running = FALSE, !.outcome = "dead end"]
      [] OTHER ->
            IF next.target \notin DOMAIN engines[e].states
            THEN [w2 EXCEPT !.running = FALSE, !.outcome = "error: not found",
                            !.missing = [state |-> next.target,
                                         module |-> engines[e].module.name]]
            ELSE [w2 EXCEPT !.ctx.cur = HandleFor(engines[e], next.target),
                            !.ctx.arrived = time,
                            !.ctx.picks =
                                IF TransitionKind(def) \in {"distributed", "complex"}
                                THEN Append(@, [state |-> state.name,
                                                target |-> next.target])
                                ELSE @]

\* the iteration once the history is written: what the loop does with the
\* value cont that the state's process returned
AfterHistory(w2, e, time, state, def, cont) ==
    CASE cont = "error" ->
            [w2 EXCEPT !.running = FALSE, !.outcome = "error: state"]
      [] cont = "false" ->
            [w2 EXCEPT !.running = FALSE, !.outcome = "stall"]
      [] cont = "true" /\ def.type = "Terminal" ->
            [w2 EXCEPT !.ctx.cur = NoState, !.running = FALSE, !.outcome = "terminal"]
      [] cont = "true" /\ def.type # "Terminal" /\ TransitionKind(def) = "none" ->
            [w2 EXCEPT !.running = FALSE, !.outcome = "no transition"]
      [] OTHER ->
            AfterFollow(w2, e, time, state, def, Follow(def, w2.person, time))

\* the iteration once the state's process returned res
AfterState(w, e, time, state, def, res) ==
    LET inst1 == IF state.shared
                 THEN [w.inst EXCEPT ![state.eng][state.name] = res.rt] ELSE w.inst
        cur1 == IF state.shared THEN state ELSE [state EXCEPT !.rt = res.rt]
    IN  AfterHistory(
            [w EXCEPT !.person = res.person, !.inst = inst1, !.ctx.cur = cur1,
                      !.nextId = res.nextId, !.iterations = @ + 1,
                      !.last = [name |-> state.name, eng |-> state.eng, cont |-> res.cont],
                      !.sawTerminal = @ \/ def.type = "Terminal",
                      !.advanced = IF res.cont = "true" THEN @ \cup {state.name} ELSE @,
                      !.ctx.history = HistoryAfter(@, state.name, res.cont),
                      !.ctx.trace = IF res.cont = "true" /\ Len(@) < MaxTrace
                                    THEN Append(@, state.name) ELSE @],
            e, time, state, def, res.cont)

\* one iteration of the while loop of process, for engine e at this time
Step(w, e, time) ==
    AfterState(w, e, time, w.ctx.cur, DefOf(w.ctx.cur),
               StateProcess(DefOf(w.ctx.cur), RtOf(w, w.ctx.cur), w.person, time, w.nextId))

\* a loop whose body runs once per call
RunOnce(w, e, time, n) == IF ~w.running \/ n = 0 THEN w ELSE Step(w, e, time)

\* while (continueProcessing && iterations < maxIterations): at most n more
\* iterations from w
RECURSIVE RunLoop(_, _, _, _)
RunLoop(w, e, time, n) ==
    IF ~w.running \/ n = 0 THEN w
    ELSE IF n = 1 THEN Step(w, e, time)
    ELSE RunLoop(RunLoop(w, e, time, n \div 2), e, time, n - (n \div 2))

IsError(outcome) == outcome \in {"error: state", "error: condition", "error: not found",
                                 "error: no Initial", "error: max iterations",
                                 "error: context"}

\* the check after the loop: if (iterations >= maxIterations) throw
AfterLoop(w) ==
    IF ~IsError(w.outcome) /\ w.iterations >= maxIterations
    THEN [w EXCEPT !.running = FALSE, !.outcome = "error: max iterations"]
    ELSE w

\* process up to its loop: the run context is fetched or created, and a
\* fresh run is put on the Initial state; with the State objects as in inst
\* and the identifiers the call generates counted from id
\* What is found under the key may be a value that a state has set there:
\* a falsy one is replaced by a new context; a truthy primitive is taken for
\* the context, and the assignment of its currentState throws a TypeError.
StartWalk(inst, e, person, time, id) ==
    LET key == contextKey(engines[e].module)
        attr == ContextAttribute(key)
        found == AttrGet(person, attr)
        ctx0 == IF key \in DOMAIN person.ctx THEN person.ctx[key] ELSE NewContext
        init == findInitialState(engines[e].module)
        w0 == [person |-> IF attr \in DOMAIN person.attributes /\ Falsy(found)
                          THEN [person EXCEPT !.attributes =
                                   [a \in DOMAIN person.attributes \ {attr} |->
                                       person.attributes[a]]]
                          ELSE person,
               inst |-> inst, ctx |-> ctx0, iterations |-> 0,
               running |-> TRUE, outcome |-> "", nextId |-> id, last |-> NoStep,
               sawTerminal |-> FALSE, advanced |-> {}, missing |-> NoMissing]
    IN  IF ctx0.cur.eng = 0 /\ init = ""
        THEN [w0 EXCEPT !.running = FALSE, !.outcome = "error: no Initial"]
        ELSE IF ~Falsy(found)
             THEN [w0 EXCEPT !.running = FALSE, !.outcome = "error: context"]
             ELSE IF ctx0.cur.eng = 0
                  THEN [w0 EXCEPT !.ctx.cur = HandleFor(engines[e], init),
                                  !.ctx.arrived = time]
                  ELSE w0

\* a walk whose loop is not stopped by the iteration count
ProcessWalkUncapped(inst, e, person, time, id) ==
    AfterLoop(RunLoop(StartWalk(inst, e, person, time, id), e, time, 2 * maxIterations))

\* ModuleEngine.process(person, time) of engine e: the final walk
ProcessWalkFrom(inst, e, person, time, id) ==
    AfterLoop(RunLoop(StartWalk(inst, e, person, time, id), e, time, maxIterations))

ProcessWalk(e, person, time) == ProcessWalkFrom(instances, e, person, time, nextId)

\* the person after the call: the context lives in the attribute store
\* under the module's key and is mutated in place
\* (an entry that a state of the walk has replaced by a value stays replaced)
PersonAfter(w, key) ==
    IF ContextAttribute(key) \in DOMAIN w.person.attributes THEN w.person
    ELSE [w.person EXCEPT !.ctx = [k \in DOMAIN w.person.ctx \cup {key} |->
                                      IF k = key THEN w.ctx ELSE w.person.ctx[k]]]

\* getTransitionTargets(definition)
RECURSIVE ComplexTargets(_, _)
ComplexTargets(options, i) ==
    IF i > Len(options) THEN <<>>
    ELSE (IF Has(options[i], "transition") THEN <<options[i].transition>> ELSE <<>>)
         \o (IF Has(options[i], "distributions")
             THEN [k \in 1..Len(options[i].distributions) |-> options[i].distributions[k].transition]
             ELSE <<>>)
         \o ComplexTargets(options, i + 1)

\* the targets without those of a Complex transition
getTransitionTargetsFlat(def) ==
    (IF Has(def, "direct_transition") THEN <<def.direct_transition>> ELSE <<>>)
    \o (IF Has(def, "conditional_transition")
        THEN [k \in 1..Len(def.conditional_transition) |-> def.conditional_transition[k].transition]
        ELSE <<>>)
    \o (IF Has(def, "distributed_transition")
        THEN [k \in 1..Len(def.distributed_transition) |-> def.distributed_transition[k].transition]
        ELSE <<>>)

getTransitionTargets(def) ==
    (IF Has(def, "direct_transition") THEN <<def.direct_transition>> ELSE <<>>)
    \o (IF Has(def, "conditional_transition")
        THEN [k \in 1..Len(def.conditional_transition) |-> def.conditional_transition[k].transition]
        ELSE <<>>)
    \o (IF Has(def, "distributed_transition")
        THEN [k \in 1..Len(def.distributed_transition) |-> def.distributed_transition[k].transition]
        ELSE <<>>)
    \o (IF Has(def, "complex_transition") THEN ComplexTargets(def.complex_transition, 1) ELSE <<>>)

\* validate(): the list of errors, each [kind, state, target]
hasInitial(module) ==
    \E n \in NamesOf(module) : module.states[n].type = "Initial"

RECURSIVE TargetErrors(_, _, _)
TargetErrors(module, i, k) ==
    IF i > Len(module.order) THEN <<>>
    ELSE LET name == module.order[i]
             targets == getTransitionTargets(module.states[name])
         IN  IF k > Len(targets) THEN TargetErrors(module, i + 1, 1)
             ELSE (IF targets[k] \notin NamesOf(module)
                   THEN <<[kind |-> "unknown state", state |-> name, target |-> targets[k]]>>
                   ELSE <<>>)
                  \o TargetErrors(module, i, k + 1)

RECURSIVE WeightErrors(_, _)
WeightErrors(module, i) ==
    IF i > Len(module.order) THEN <<>>
    ELSE LET name == module.order[i]
             def == module.states[name]
         IN  (IF Has(def, "distributed_transition") /\ ~WeightsOk(def.distributed_transition)
              THEN <<[kind |-> "weights", state |-> name, target |-> ""]>>
              ELSE <<>>)
             \o WeightErrors(module, i + 1)

\* a validate() that returns at its first finding
validateFirst(module) ==
    IF ~hasInitial(module) THEN <<[kind |-> "no Initial", state |-> "", target |-> ""]>>
    ELSE LET rest == TargetErrors(module, 1, 1) \o WeightErrors(module, 1)
         IN  IF rest = <<>> THEN <<>> ELSE <<rest[1]>>

validate(module) ==
    (IF ~hasInitial(module)
     THEN <<[kind |-> "no Initial", state |-> "", target |-> ""]>> ELSE <<>>)
    \o TargetErrors(module, 1, 1)
    \o WeightErrors(module, 1)

(***************************************************************************)
(* Inputs: module definitions, entities and call times                     *)
(***************************************************************************)
MaxEngines == 3
MaxCalls == 3
MaxTick == 2
PastTicks == 1

TickMs == convertToMs(1, "seconds")
Times == {k * TickMs : k \in (0 - PastTicks)..MaxTick}

StrA == Str(1)
StrB == Str(2)

TerminalDef == [type |-> "Terminal"]
Set(attribute, value, to) ==
    [type |-> "SetAttribute", attribute |-> attribute, value |-> value,
     direct_transition |-> to]

\* Initial -> Set_Value -> Terminal
SimpleModule ==
    [name |-> "Simple Test",
     order |-> <<"Initial", "Set_Value", "Terminal">>,
     states |-> [Initial |-> [type |-> "Initial", direct_transition |-> "Set_Value"],
                 Set_Value |-> Set("test_value", Num(42), "Terminal"),
                 Terminal |-> TerminalDef]]

\* Initial -> Age_Guard (age >= 0) -> Adult -> Terminal
GuardModule ==
    [name |-> "Guard Test",
     order |-> <<"Initial", "Age_Guard", "Adult", "Terminal">>,
     states |-> [Initial |-> [type |-> "Initial", direct_transition |-> "Age_Guard"],
                 Age_Guard |-> [type |-> "Guard",
                                allow |-> [condition_type |-> "Age", operator |-> ">=",
                                           quantity |-> 0, unit |-> "years"],
                                direct_transition |-> "Adult"],
                 Adult |-> Set("is_adult", Bool(TRUE), "Terminal"),
                 Terminal |-> TerminalDef]]

\* Initial -> Gate (done is not true) -> Mark (done := true) -> Gate
GuardLoopModule ==
    [name |-> "Guard Loop",
     order |-> <<"Initial", "Gate", "Mark">>,
     states |-> [Initial |-> [type |-> "Initial", direct_transition |-> "Gate"],
                 Gate |-> [type |-> "Guard",
                           allow |-> [condition_type |-> "Not",
                                      condition |-> [condition_type |-> "Attribute",
                                                     attribute |-> "done",
                                                     value |-> Bool(TRUE)]],
                           direct_transition |-> "Mark"],
                 Mark |-> Set("done", Bool(TRUE), "Gate")]]

\* Initial -> Wait (1 second) -> After_Wait -> Terminal
DelayModule ==
    [name |-> "Delay Test",
     order |-> <<"Initial", "Wait", "After_Wait", "Terminal">>,
     states |-> [Initial |-> [type |-> "Initial", direct_transition |-> "Wait"],
                 Wait |-> [type |-> "Delay", exact |-> [quantity |-> 1, unit |-> "seconds"],
                           direct_transition |-> "After_Wait"],
                 After_Wait |-> Set("waited", Bool(TRUE), "Terminal"),
                 Terminal |-> TerminalDef]]

\* Initial -> Wait (1 second) -> Check: visited -> Done -> Terminal, else -> Visit -> Wait:
\* the Delay is entered a second time
DelayLoopModule ==
    [name |-> "Delay Loop",
     order |-> <<"Initial", "Wait", "Check", "Visit", "Done", "Terminal">>,
     states |-> [Initial |-> [type |-> "Initial", direct_transition |-> "Wait"],
                 Wait |-> [type |-> "Delay", exact |-> [quantity |-> 1, unit |-> "seconds"],
                           direct_transition |-> "Check"],
                 Done |-> Set("done", Bool(TRUE), "Terminal"),
                 Check |-> [type |-> "Simple",
                            conditional_transition |->
                                <<[condition |-> [condition_type |-> "Attribute",
                                                  attribute |-> "visited",
                                                  value |-> Bool(TRUE)],
                                   transition |-> "Done"],
                                  [transition |-> "Visit"]>>],
                 Visit |-> Set("visited", Bool(TRUE), "Wait"),
                 Terminal |-> TerminalDef]]

\* Initial -> Choice -(0.3)-> Path_A / -(0.7)-> Path_B -> Terminal
DistributedModule ==
    [name |-> "Distributed Transition Test",
     order |-> <<"Initial", "Choice", "Path_A", "Path_B", "Terminal">>,
     states |-> [Initial |-> [type |-> "Initial", direct_transition |-> "Choice"],
                 Choice |-> [type |-> "Simple",
                             distributed_transition |->
                                 <<[transition |-> "Path_A", distribution |-> 3000],
                                   [transition |-> "Path_B", distribution |-> 7000]>>],
                 Path_A |-> Set("path", StrA, "Terminal"),
                 Path_B |-> Set("path", StrB, "Terminal"),
                 Terminal |-> TerminalDef]]

\* Initial -> Check_Gender: M -> Male_Path -> Doctor_Visit -> Terminal;
\* no option matches anyone else
ConditionalModule ==
    [name |-> "Conditional Test",
     order |-> <<"Initial", "Check_Gender", "Male_Path", "Doctor_Visit", "Terminal">>,
     states |-> [Initial |-> [type |-> "Initial", direct_transition |-> "Check_Gender"],
                 Check_Gender |-> [type |-> "Simple",
                                   conditional_transition |->
                                       <<[condition |-> [condition_type |-> "Gender",
                                                         gender |-> "M"],
                                          transition |-> "Male_Path"]>>],
                 Male_Path |-> Set("path", StrA, "Doctor_Visit"),
                 Doctor_Visit |-> [type |-> "Encounter", encounter_class |-> "ambulatory",
                                   codes |-> <<[system |-> "SNOMED-CT", code |-> "185349003"]>>,
                                   direct_transition |-> "Terminal"],
                 Terminal |-> TerminalDef]]

\* Initial -> Onset -> Branch: F -> weighted Path_A / Path_B, others -> Terminal
ComplexModule ==
    [name |-> "Complex Test",
     order |-> <<"Initial", "Onset", "Branch", "Path_A", "Path_B", "Terminal">>,
     states |-> [Initial |-> [type |-> "Initial", direct_transition |-> "Onset"],
                 Onset |-> [type |-> "ConditionOnset", assign_to_attribute |-> "diagnosis",
                            direct_transition |-> "Branch"],
                 Branch |-> [type |-> "Simple",
                             complex_transition |->
                                 <<[condition |-> [condition_type |-> "Gender", gender |-> "F"],
                                    distributions |->
                                        <<[transition |-> "Path_A", distribution |-> 5000],
                                          [transition |-> "Path_B", distribution |-> 5000]>>],
                                   [transition |-> "Terminal"]>>],
                 Path_A |-> Set("path", StrA, "Terminal"),
                 Path_B |-> Set("path", StrB, "Terminal"),
                 Terminal |-> TerminalDef]]

Modules ==
    {SimpleModule, GuardModule, GuardLoopModule, DelayModule, DelayLoopModule,
     DistributedModule, ConditionalModule, ComplexModule}

PersonIds == {1, 2}

NewPerson(id, seed, gender, birthDate) ==
    [id |-> id, seed |-> seed, gender |-> gender, birthDate |-> birthDate,
     attributes |-> [alive |-> Bool(TRUE)],
     record |-> [encounters |-> <<>>, conditions |-> <<>>, medications |-> <<>>],
     ctx |-> <<>>]

Seeds == <<12345, 456>>

NoCall ==
    [op |-> "none", engine |-> 0, person |-> 0, time |-> 0, outcome |-> "",
     iterations |-> 0, last |-> NoStep, sawTerminal |-> FALSE, advanced |-> {},
     missing |-> NoMissing,
     errors |-> <<>>]

(***************************************************************************)
(* Operations                                                              *)
(***************************************************************************)
CallsMade == Len(log[1]) + Len(log[2])

LastTime(p) == log[p][Len(log[p])].time

\* new ModuleEngine(module): the first engine; a constructor that throws
\* leaves no engine behind
Construct(module) ==
    /\ Len(engines) = 0
    /\ lastCall.op = "none"
    /\ IF ConstructorThrows(module)
       THEN /\ UNCHANGED <<engines, instances>>
            /\ lastCall' = [NoCall EXCEPT !.op = "construct", !.outcome = "error: constructor",
                                          !.errors = <<ConstructorError(module, 1)>>]
       ELSE /\ engines' = <<NewEngine(module, FALSE, 1)>>
            /\ instances' = <<NewInstances(module)>>
            /\ lastCall' = [NoCall EXCEPT !.op = "construct", !.engine = 1]
    /\ UNCHANGED <<persons, nextId, log, probe>>

\* engine.clone()
Clone(e) ==
    /\ Len(engines) < MaxEngines
    /\ engines' = Append(engines, CloneEngine(engines[e], Len(engines) + 1))
    /\ instances' = Append(instances, NewInstances(engines[e].module))
    /\ lastCall' = [NoCall EXCEPT !.op = "clone", !.engine = Len(engines) + 1]
    /\ UNCHANGED <<persons, nextId, log, probe>>

\* engine.process(person, time); time does not decrease from call to call
\* for one person
Process(e, p, time) ==
    /\ CallsMade < MaxCalls
    /\ Len(log[p]) > 0 => time >= LastTime(p)
    /\ \E w \in {ProcessWalk(e, persons[p], time)} :
           /\ persons' = [persons EXCEPT ![p] = PersonAfter(w, contextKey(engines[e].module))]
           /\ instances' = w.inst
           /\ nextId' = w.nextId
           /\ lastCall' = [NoCall EXCEPT !.op = "process", !.engine = e, !.person = p,
                                         !.time = time, !.outcome = w.outcome,
                                         !.iterations = w.iterations, !.last = w.last,
                                         !.sawTerminal = w.sawTerminal,
                                         !.advanced = w.advanced,
                                         !.missing = w.missing]
    /\ log' = [log EXCEPT ![p] = Append(@, [engine |-> e, time |-> time])]
    /\ UNCHANGED <<engines, probe>>

\* engine.validate()
Validate(e) ==
    /\ lastCall.op # "validate"
    /\ lastCall' = [NoCall EXCEPT !.op = "validate", !.engine = e,
                                  !.errors = validate(engines[e].module)]
    /\ UNCHANGED <<engines, instances, persons, nextId, log, probe>>

Init ==
    /\ engines = <<>>
    /\ instances = <<>>
    /\ persons = [p \in PersonIds |->
                     NewPerson(p, Seeds[p], IF p = 1 THEN "M" ELSE "F", (p - 1) * TickMs)]
    /\ nextId = 1
    /\ lastCall = NoCall
    /\ log = [p \in PersonIds |-> <<>>]
    /\ probe = <<>>

Next ==
    \/ \E m \in Modules : Construct(m)
    \/ \E e \in 1..Len(engines) : Clone(e)
    \/ \E e \in 1..Len(engines), p \in PersonIds, t \in Times : Process(e, p, t)

Spec == Init /\ [][Next]_vars

(***************************************************************************)
(* Two executions side by side.  Persons 1 and 2 are the same entity (same *)
(* seed, gender and birth date); engine 1 is built from a definition and   *)
(* runs person 1, engine 2 is either a clone of engine 1 or a second       *)
(* engine built from the same definition and runs person 2, at the same    *)
(* sequence of times.                                                      *)
(***************************************************************************)
Genders == <<"M", "F">>

TwinInit ==
    /\ engines = <<>>
    /\ instances = <<>>
    /\ \E k \in 1..Len(Seeds) :
          persons = [p \in PersonIds |-> NewPerson(p, Seeds[k], Genders[k], (k - 1) * TickMs)]
    /\ nextId = 1
    /\ lastCall = NoCall
    /\ log = [p \in PersonIds |-> <<>>]
    /\ probe = <<>>

TwinClone == Len(engines) = 1 /\ Clone(1)

\* new ModuleEngine(module) a second time, from the same definition
TwinConstruct ==
    /\ Len(engines) = 1
    /\ engines' = Append(engines, NewEngine(engines[1].module, FALSE, 2))
    /\ instances' = Append(instances, NewInstances(engines[1].module))
    /\ lastCall' = [NoCall EXCEPT !.op = "construct", !.engine = 2]
    /\ UNCHANGED <<persons, nextId, log, probe>>

\* engine 1 processes person 1 and engine 2 processes person 2, both at this
\* time; each execution numbers the identifiers it generates by itself
TwinProcess(time) ==
    /\ Len(engines) = 2
    /\ Len(log[1]) < MaxCalls
    /\ Len(log[1]) > 0 => time >= LastTime(1)
    /\ \E w1 \in {ProcessWalkFrom(instances, 1, persons[1], time, nextId)} :
       \E w2 \in {ProcessWalkFrom(w1.inst, 2, persons[2], time, nextId)} :
       LET key == contextKey(engines[1].module)
       IN  /\ persons' = [p \in PersonIds |->
                              IF p = 1 THEN PersonAfter(w1, key) ELSE PersonAfter(w2, key)]
           /\ instances' = w2.inst
           /\ nextId' = IF w1.nextId > w2.nextId THEN w1.nextId ELSE w2.nextId
           /\ lastCall' = [NoCall EXCEPT !.op = "process", !.engine = 2, !.person = 2,
                                         !.time = time, !.outcome = w2.outcome,
                                         !.iterations = w2.iterations, !.last = w2.last,
                                         !.sawTerminal = w2.sawTerminal,
                                         !.advanced = w2.advanced]
    /\ log' = [p \in PersonIds |-> Append(log[p], [engine |-> p, time |-> time])]
    /\ UNCHANGED <<engines, probe>>

TwinNext ==
    \/ \E m \in Modules : Construct(m)
    \/ TwinClone
    \/ TwinConstruct
    \/ \E t \in Times : TwinProcess(t)

SpecTwin == TwinInit /\ [][TwinNext]_vars

(***************************************************************************)
(* Validation.  A family of modules: Start and Second are of type Initial  *)
(* or Simple, each of the four transition kinds names a defined or an      *)
(* undefined state, and the weights of Choice sum to 1.0 or not; with      *)
(* shadowed, Choice also has a direct transition, which createTransition   *)
(* prefers, so that the constructor never looks at its weights.            *)
(***************************************************************************)
TargetChoices == {"Terminal", "Missing"}

WeightChoices == {<<3000, 7000>>, <<4995, 5000>>, <<3000, 6000>>}

ValidateModule(nInit, shadowed, tD, tC, tW, tX, wts) ==
    LET dist == <<[transition |-> "Second", distribution |-> wts[1]],
                  [transition |-> tW, distribution |-> wts[2]]>>
    IN  [name |-> "Validate Test",
         order |-> <<"Start", "Second", "Choice", "Branch", "Terminal">>,
         states |->
            [Start |-> [type |-> IF nInit >= 1 THEN "Initial" ELSE "Simple",
                        direct_transition |-> tD],
             Second |-> [type |-> IF nInit >= 2 THEN "Initial" ELSE "Simple",
                         conditional_transition |->
                             <<[condition |-> [condition_type |-> "Gender", gender |-> "M"],
                                transition |-> tC],
                               [transition |-> "Choice"]>>],
             Choice |-> IF shadowed
                        THEN [type |-> "Simple", direct_transition |-> "Branch",
                              distributed_transition |-> dist]
                        ELSE [type |-> "Simple", distributed_transition |-> dist],
             Branch |-> [type |-> "Simple",
                         complex_transition |->
                             <<[condition |-> [condition_type |-> "Gender", gender |-> "F"],
                                distributions |->
                                    <<[transition |-> "Terminal", distribution |-> 5000],
                                      [transition |-> tX, distribution |-> 5000]>>],
                               [transition |-> "Terminal"]>>],
             Terminal |-> TerminalDef]]

ValidateModules ==
    {ValidateModule(n, sh, tD, tC, tW, tX, wts) :
        n \in 0..2, sh \in BOOLEAN, tD \in TargetChoices, tC \in TargetChoices,
        tW \in TargetChoices, tX \in TargetChoices, wts \in WeightChoices}

\* Initial -> Custom (a type no state creator is registered for) -> Terminal
UnknownTypeModule ==
    [name |-> "Unknown Type Test",
     order |-> <<"Initial", "Custom", "Terminal">>,
     states |-> [Initial |-> [type |-> "Initial", direct_transition |-> "Custom"],
                 Custom |-> [type |-> "CustomType", direct_transition |-> "Terminal"],
                 Terminal |-> TerminalDef]]

ValidateNext ==
    \/ \E m \in ValidateModules \cup {UnknownTypeModule} : Construct(m)
    \/ \E e \in 1..Len(engines) : Validate(e)

SpecValidate == Init /\ [][ValidateNext]_vars

(***************************************************************************)
(* Long walks.  A chain S1 (Initial) -> S2 -> ... of n states, all          *)
(* advancing but the last, which is a Terminal, a Guard that holds nobody   *)
(* back or everybody, or a state without transition; and a cycle.           *)
(***************************************************************************)
ChainName(i) == "S" \o ToString(i)

ChainLengths == {3, 999, 1000, 1001}

ChainEnds == {"Terminal", "Guard", "Simple"}

ChainModule(n, end) ==
    [name |-> "Chain " \o ToString(n) \o " " \o end,
     order |-> [i \in 1..n |-> ChainName(i)],
     states |-> [s \in {ChainName(i) : i \in 1..n} |->
                    IF s = ChainName(n)
                    THEN IF end = "Guard"
                         THEN [type |-> "Guard", allow |-> [condition_type |-> "False"],
                               direct_transition |-> ChainName(1)]
                         ELSE [type |-> end]
                    ELSE LET i == CHOOSE k \in 1..n : s = ChainName(k)
                         IN  [type |-> IF i = 1 THEN "Initial" ELSE "Simple",
                              direct_transition |-> ChainName(i + 1)]]]

CycleModule ==
    [name |-> "Cycle",
     order |-> <<"Initial", "Ping", "Pong">>,
     states |-> [Initial |-> [type |-> "Initial", direct_transition |-> "Ping"],
                 Ping |-> [type |-> "Simple", direct_transition |-> "Pong"],
                 Pong |-> [type |-> "Simple", direct_transition |-> "Ping"]]]

CapModules == {ChainModule(n, end) : n \in ChainLengths, end \in ChainEnds} \cup {CycleModule}

\* the engine processes person 1
CapProcess(time) == Len(engines) = 1 /\ Process(1, 1, time)

CapNext ==
    \/ \E m \in CapModules : Construct(m)
    \/ \E t \in Times : CapProcess(t)

SpecCap == Init /\ [][CapNext]_vars

(***************************************************************************)
(* ConditionalTransition.follow called directly: the options, the person   *)
(* and the time are drawn at the start, one call applies follow to them.   *)
(***************************************************************************)
MaxOptions == 3

Absent == [condition_type |-> "absent"]

FollowConditions ==
    {Absent,
     [condition_type |-> "Gender", gender |-> "M"],
     [condition_type |-> "Attribute", attribute |-> "flag", value |-> Bool(TRUE)],
     [condition_type |-> "Age", operator |-> ">=", quantity |-> 0, unit |-> "years"],
     [condition_type |-> "Not", condition |-> [condition_type |-> "Gender", gender |-> "M"]],
     [condition_type |-> "False"],
     [condition_type |-> "Unknown"]}

\* option i of a list names target Ti
OptionsOf(conds) ==
    [i \in 1..Len(conds) |->
        IF conds[i] = Absent THEN [transition |-> "T" \o ToString(i)]
        ELSE [condition |-> conds[i], transition |-> "T" \o ToString(i)]]

FollowPersons ==
    {NewPerson(1, Seeds[1], "M", 0),
     NewPerson(2, Seeds[2], "F", TickMs),
     AttrSet(NewPerson(2, Seeds[2], "F", 0), "flag", Bool(TRUE)),
     AttrSet(NewPerson(1, Seeds[1], "M", TickMs), "flag", Bool(FALSE))}

FollowInit ==
    /\ engines = <<>>
    /\ instances = <<>>
    /\ persons = [p \in PersonIds |->
                     NewPerson(p, Seeds[p], IF p = 1 THEN "M" ELSE "F", (p - 1) * TickMs)]
    /\ nextId = 1
    /\ lastCall = NoCall
    /\ log = [p \in PersonIds |-> <<>>]
    /\ \E n \in 0..MaxOptions :
         \E conds \in [1..n -> FollowConditions], person \in FollowPersons, t \in {0, TickMs} :
            probe = [op |-> "input", options |-> OptionsOf(conds), person |-> person,
                     time |-> t, result |-> NoTarget]

\* new ConditionalTransition(options).follow(person, time)
FollowCall ==
    /\ probe.op = "input"
    /\ probe' = [probe EXCEPT !.op = "follow",
                              !.result = ConditionalFollow(probe.options, probe.person,
                                                           probe.time)]
    /\ UNCHANGED <<engines, instances, persons, nextId, lastCall, log>>

FollowNext == FollowCall

SpecFollow == FollowInit /\ [][FollowNext]_vars

(***************************************************************************)
(* DistributedTransition.follow called directly: the weights and the       *)
(* person's seed are drawn at the start, one call applies follow to them.  *)
(* ZeroDrawSeed is the seed whose first draw is 0:                         *)
(* (LcgA * ZeroDrawSeed + LcgC) % 2^32 = 0.                                *)
(***************************************************************************)
\* nothing constructed, nobody processed
Idle ==
    /\ engines = <<>>
    /\ instances = <<>>
    /\ persons = [p \in PersonIds |->
                     NewPerson(p, Seeds[p], IF p = 1 THEN "M" ELSE "F", (p - 1) * TickMs)]
    /\ nextId = 1
    /\ lastCall = NoCall
    /\ log = [p \in PersonIds |-> <<>>]

MaxSmallSeed == 60

ZeroDrawSeed == 634785765

DrawSeeds == (0..MaxSmallSeed) \cup {ZeroDrawSeed, Seeds[1], Seeds[2]}

DrawWeights == {<<0, 10000>>, <<10000, 0>>, <<3000, 7000>>, <<5000, 5000>>}

DrawInit ==
    /\ Idle
    /\ \E seed \in DrawSeeds, wts \in DrawWeights :
          probe = [op |-> "input",
                   options |-> <<[transition |-> "T1", distribution |-> wts[1]],
                                 [transition |-> "T2", distribution |-> wts[2]]>>,
                   person |-> NewPerson(1, seed, "M", 0), time |-> 0, result |-> NoTarget]

\* new DistributedTransition(options).follow(person, time)
DrawCall ==
    /\ probe.op = "input"
    /\ probe' = [probe EXCEPT !.op = "draw",
                              !.result = DistributedFollow(probe.options, probe.person,
                                                           probe.time)]
    /\ UNCHANGED <<engines, instances, persons, nextId, lastCall, log>>

DrawNext == DrawCall

SpecDraw == DrawInit /\ [][DrawNext]_vars

(***************************************************************************)
(* Objects.  Module definitions as JavaScript objects on a heap.  A cell   *)
(* is [t, keys, slots, items]: t is "object" or "array", keys and slots    *)
(* the named properties in insertion order, items the elements of an       *)
(* array.  A slot holds a primitive [t, v] or a reference [t |-> "ref",    *)
(* v |-> address].  A text (and the value an object denotes) is a tree of  *)
(* the same shape with trees in the place of slots.  Strings are indexes:  *)
(* 0 is '*', 1 'test_module', 2 'other_module', above 10 literal values.   *)
(***************************************************************************)
Null == [t |-> "null", v |-> 0]

Ref(a) == [t |-> "ref", v |-> a]

\* the value a slot denotes, as JavaScript sees it
RECURSIVE ViewOf(_, _)
ViewOf(heap, slot) ==
    IF slot.t # "ref" THEN slot
    ELSE LET c == heap[slot.v]
         IN  [t |-> c.t, keys |-> c.keys,
              slots |-> [i \in 1..Len(c.slots) |-> ViewOf(heap, c.slots[i])],
              items |-> [i \in 1..Len(c.items) |-> ViewOf(heap, c.items[i])]]

\* the text JSON.stringify writes for a value: NaN becomes null, a property
\* whose value is undefined is left out, an undefined element becomes null,
\* the named properties of an array are left out
RECURSIVE ToJson(_)
ToJson(tree) ==
    CASE tree.t = "object" ->
            LET kept == SelectSeq([i \in 1..Len(tree.slots) |-> i],
                                  LAMBDA i : tree.slots[i].t # "undefined")
            IN  [t |-> "object",
                 keys |-> [j \in 1..Len(kept) |-> tree.keys[kept[j]]],
                 slots |-> [j \in 1..Len(kept) |-> ToJson(tree.slots[kept[j]])],
                 items |-> <<>>]
      [] tree.t = "array" ->
            [t |-> "array", keys |-> <<>>, slots |-> <<>>,
             items |-> [i \in 1..Len(tree.items) |->
                           IF tree.items[i].t = "undefined" THEN Null
                           ELSE ToJson(tree.items[i])]]
      [] tree.t = "nan" -> Null
      [] OTHER -> tree

\* JSON.stringify(x)
Stringify(heap, slot) == ToJson(ViewOf(heap, slot))

\* JSON.parse(text): every object and array of the text is a new cell.
\* Parse gives [heap, slot]; ParseAll parses trees[i..] and collects the slots.
RECURSIVE Parse(_, _)
RECURSIVE ParseAll(_, _, _, _)
Parse(heap, tree) ==
    IF tree.t \notin {"object", "array"} THEN [heap |-> heap, slot |-> tree]
    ELSE CHOOSE r \in UNION
            {{[heap |-> Append(b.heap, [t |-> tree.t, keys |-> tree.keys,
                                        slots |-> a.slots, items |-> b.slots]),
               slot |-> Ref(Len(b.heap) + 1)] :
                    b \in {ParseAll(a.heap, tree.items, 1, <<>>)}} :
                a \in {ParseAll(heap, tree.slots, 1, <<>>)}} : TRUE

ParseAll(heap, trees, i, acc) ==
    IF i > Len(trees) THEN [heap |-> heap, slots |-> acc]
    ELSE CHOOSE r \in {ParseAll(p.heap, trees, i + 1, Append(acc, p.slot)) :
                           p \in {Parse(heap, trees[i])}} : TRUE

\* a copy that is a new object around the same properties
ShallowCopy(heap, slot) ==
    [heap |-> Append(heap, heap[slot.v]), slot |-> Ref(Len(heap) + 1)]

\* JSON.parse(JSON.stringify(module))
DeepCopy(heap, slot) == Parse(heap, Stringify(heap, slot))

\* obj[key] for a named property; undefined when obj has no such property
Get(heap, slot, key) ==
    IF slot.t # "ref" THEN Undefined
    ELSE LET c == heap[slot.v]
             pos == {k \in 1..Len(c.keys) : c.keys[k] = key}
         IN  IF pos = {} THEN Undefined ELSE c.slots[CHOOSE k \in pos : TRUE]

\* setValueByPath(obj, path, value) from the i-th part of the path on, current
\* being the object reached.  A part is [key, index], index >= 0 for a part of
\* digits.  The result is the heap and whether an exception was thrown: the
\* Error of a numeric part on a non-array, or the TypeError of the strict-mode
\* assignment of a property to a primitive.
RECURSIVE setValueByPath(_, _, _, _, _)
setValueByPath(heap, current, parts, i, value) ==
    LET part == parts[i]
        numeric == part.index >= 0
        isRef == current.t = "ref"
        c == heap[current.v]
        at == IF ~numeric THEN Get(heap, current, part.key)
              ELSE IF part.index < Len(c.items) THEN c.items[part.index + 1]
              ELSE Undefined
        Put(h, slot) ==
            LET o == h[current.v]
                n == IF part.index + 1 > Len(o.items) THEN part.index + 1 ELSE Len(o.items)
                pos == {k \in 1..Len(o.keys) : o.keys[k] = part.key}
            IN  IF numeric
                THEN [h EXCEPT ![current.v].items =
                        [k \in 1..n |-> IF k = part.index + 1 THEN slot
                                        ELSE IF k <= Len(o.items) THEN o.items[k]
                                        ELSE Undefined]]
                ELSE IF pos = {}
                THEN [h EXCEPT ![current.v].keys = Append(@, part.key),
                               ![current.v].slots = Append(@, slot)]
                ELSE [h EXCEPT ![current.v].slots[CHOOSE k \in pos : TRUE] = slot]
        fresh == Ref(Len(heap) + 1)
        empty == [t |-> "object", keys |-> <<>>, slots |-> <<>>, items |-> <<>>]
    IN  IF (numeric /\ ~(isRef /\ c.t = "array")) \/ (~numeric /\ ~isRef)
        THEN [heap |-> heap, threw |-> TRUE]
        ELSE IF i = Len(parts) THEN [heap |-> Put(heap, value), threw |-> FALSE]
        ELSE IF Falsy(at)
        THEN CHOOSE r \in {setValueByPath(h, fresh, parts, i + 1, value) :
                              h \in {Put(Append(heap, empty), fresh)}} : TRUE
        ELSE setValueByPath(heap, at, parts, i + 1, value)

\* the loop over Object.values(module.states) of applyOverride, from the i-th
\* state on: what setValueByPath throws is caught
RECURSIVE OverrideEachState(_, _, _, _)
OverrideEachState(heap, states, override, i) ==
    IF i > Len(states) THEN [heap |-> heap, threw |-> FALSE]
    ELSE CHOOSE r \in {OverrideEachState(s.heap, states, override, i + 1) :
                          s \in {setValueByPath(heap, states[i], override.path, 1,
                                                override.value)}} : TRUE

\* applyOverride(module, override); state is "" when the override names none
applyOverride(heap, module, override) ==
    LET states == Get(heap, module, "states")
        state == Get(heap, states, override.state)
    IN  IF override.state # ""
        THEN IF Falsy(state) THEN [heap |-> heap, threw |-> FALSE]
             ELSE setValueByPath(heap, state, override.path, 1, override.value)
        ELSE IF Len(override.path) > 1 /\ override.path[1].key = "states"
        THEN setValueByPath(heap, module, override.path, 1, override.value)
        ELSE OverrideEachState(heap, heap[states.v].slots, override, 1)

OverrideAppliesAlways(override, name) == TRUE

\* override.module === module.name || override.module === '*'
OverrideApplies(override, name) ==
    StrictEq(override.module, name) \/ StrictEq(override.module, Str(0))

\* the loop of applyOverrides from the i-th override on; an exception ends it
RECURSIVE OverrideFrom(_, _, _, _, _)
OverrideFrom(heap, copy, name, overrides, i) ==
    IF i > Len(overrides) THEN [heap |-> heap, slot |-> copy, threw |-> FALSE]
    ELSE IF ~OverrideApplies(overrides[i], name)
    THEN OverrideFrom(heap, copy, name, overrides, i + 1)
    ELSE CHOOSE r \in
            {IF s.threw THEN [heap |-> s.heap, slot |-> Undefined, threw |-> TRUE]
             ELSE OverrideFrom(s.heap, copy, name, overrides, i + 1) :
                s \in {applyOverride(heap, copy, overrides[i])}} : TRUE

\* ModuleOverrideManager.applyOverrides(module): [heap, slot, threw]
applyOverrides(heap, module, overrides) ==
    CHOOSE r \in {OverrideFrom(c.heap, c.slot, Get(heap, module, "name"), overrides, 1) :
                     c \in {DeepCopy(heap, module)}} : TRUE

MaxMutations == 2

\* module name, literal value of the SetAttribute state, weights of the
\* transition list of the Initial state
CopyInputs ==
    {Str(1), Str(2)} \X {Num(42), Str(11), Bool(TRUE), Null}
        \X {<<3000, 7000>>, <<5000, 5000>>}

\* the text of a module: Initial -> Set_Value / Terminal, Set_Value -> Terminal
ModuleText(in) ==
    LET O(keys, slots) == [t |-> "object", keys |-> keys, slots |-> slots, items |-> <<>>]
        A(items) == [t |-> "array", keys |-> <<>>, slots |-> <<>>, items |-> items]
        Option(to, w) == O(<<"transition", "distribution">>, <<Str(to), Num(w)>>)
    IN  O(<<"name", "states">>,
          <<in[1],
            O(<<"Initial", "Set_Value", "Terminal">>,
              <<O(<<"type", "distributed_transition">>,
                  <<Str(21), A(<<Option(32, in[3][1]), Option(33, in[3][2])>>)>>),
                O(<<"type", "attribute", "value", "direct_transition">>,
                  <<Str(22), Str(12), in[2], Str(33)>>),
                O(<<"type">>, <<Str(23)>>)>>)>>)

\* a path of an assignment or of an override
Path(keys) == [i \in 1..Len(keys) |-> [key |-> keys[i], index |-> -1]]

PathAt(keys, index, key) ==
    Path(keys) \o <<[key |-> ToString(index), index |-> index], [key |-> key, index |-> -1]>>

\* the module parsed from its source text; nothing copied yet
CopyInit ==
    /\ Idle
    /\ \E in \in CopyInputs :
          LET m == Parse(<<>>, ModuleText(in))
          IN  probe = [op |-> "parsed", heap |-> m.heap, orig |-> m.slot, copy |-> Undefined,
                       mutations |-> 0, touched |-> Undefined]

\* ModuleEngine.clone(): the module of the new engine
CopyByClone ==
    /\ probe.op = "parsed"
    /\ LET c == DeepCopy(probe.heap, probe.orig)
       IN  probe' = [probe EXCEPT !.op = "clone", !.heap = c.heap, !.copy = c.slot]
    /\ UNCHANGED <<engines, instances, persons, nextId, lastCall, log>>

\* LazyModuleSupplier.cloneModule()
CopyBySupplier ==
    /\ probe.op = "parsed"
    /\ LET c == DeepCopy(probe.heap, probe.orig)
       IN  probe' = [probe EXCEPT !.op = "cloneModule", !.heap = c.heap, !.copy = c.slot]
    /\ UNCHANGED <<engines, instances, persons, nextId, lastCall, log>>

\* an assignment through the copy or through the original: x.name = v,
\* x.states.Set_Value.value = v or
\* x.states.Initial.distributed_transition[0].distribution = v
Mutate(which, depth) ==
    /\ probe.op \in {"clone", "cloneModule", "mutated"}
    /\ probe.mutations < MaxMutations
    /\ \E in \in CopyInputs :
          LET x == IF which = "copy" THEN probe.copy ELSE probe.orig
              s == CASE depth = "name" ->
                          setValueByPath(probe.heap, x, Path(<<"name">>), 1, in[1])
                     [] depth = "value" ->
                          setValueByPath(probe.heap, x,
                                         Path(<<"states", "Set_Value", "value">>), 1, in[2])
                     [] depth = "entry" ->
                          setValueByPath(probe.heap, x,
                                         PathAt(<<"states", "Initial", "distributed_transition">>,
                                                0, "distribution"), 1, Num(in[3][1]))
          IN  probe' = [probe EXCEPT !.op = "mutated", !.heap = s.heap,
                                     !.mutations = @ + 1, !.touched = x]
    /\ UNCHANGED <<engines, instances, persons, nextId, lastCall, log>>

CopyNext ==
    \/ CopyByClone
    \/ CopyBySupplier
    \/ \E which \in {"copy", "orig"}, depth \in {"name", "value", "entry"} : Mutate(which, depth)

SpecCopy == CopyInit /\ [][CopyNext]_vars

(***************************************************************************)
(* ModuleOverrideManager: overrides added one by one, then applied to a    *)
(* module.                                                                 *)
(***************************************************************************)
MaxOverrides == 2

\* module '*', 'test_module' or 'other_module'; no state, a state of the
\* module or a state it has not; a path to an existing key, through a list
\* index, to a missing key, with an index applied to a string, from the
\* module to an existing state and to a missing one
Overrides ==
    [module : {Str(0), Str(1), Str(2)},
     state : {"", "Set_Value", "Missing"},
     path : {Path(<<"value">>),
             PathAt(<<"distributed_transition">>, 0, "distribution"),
             Path(<<"non", "existent", "path">>),
             Path(<<"type">>) \o <<[key |-> "0", index |-> 0]>>,
             Path(<<"states", "Set_Value", "value">>),
             Path(<<"states", "Missing", "value">>)},
     value : {Str(13)}]

\* new ModuleOverrideManager(config) with an empty configuration, and the
\* module the overrides will be applied to
OverrideInit ==
    /\ Idle
    /\ \E in \in {x \in CopyInputs : x[2] = Num(42) /\ x[3][1] = 3000} :
          LET m == Parse(<<>>, ModuleText(in))
          IN  probe = [op |-> "new", heap |-> m.heap, module |-> m.slot, overrides |-> <<>>,
                       result |-> Undefined, threw |-> FALSE]

\* addOverride(override)
AddOverride ==
    /\ probe.op \in {"new", "added", "cleared"}
    /\ Len(probe.overrides) < MaxOverrides
    /\ \E o \in Overrides :
          probe' = [probe EXCEPT !.op = "added", !.overrides = Append(@, o)]
    /\ UNCHANGED <<engines, instances, persons, nextId, lastCall, log>>

\* clearOverrides()
ClearOverrides ==
    /\ probe.op = "added"
    /\ probe' = [probe EXCEPT !.op = "cleared", !.overrides = <<>>]
    /\ UNCHANGED <<engines, instances, persons, nextId, lastCall, log>>

\* applyOverrides(module)
ApplyOverrides ==
    /\ probe.op \in {"new", "added", "cleared"}
    /\ \E r \in {applyOverrides(probe.heap, probe.module, probe.overrides)} :
          probe' = [probe EXCEPT !.op = "applied", !.heap = r.heap, !.result = r.slot,
                                 !.threw = r.threw]
    /\ UNCHANGED <<engines, instances, persons, nextId, lastCall, log>>

OverrideNext == AddOverride \/ ClearOverrides \/ ApplyOverrides

SpecOverride == OverrideInit /\ [][OverrideNext]_vars

(***************************************************************************)
(* evaluateCondition called directly on conditions with and without        *)
(* unknown tokens.                                                         *)
(***************************************************************************)
\* leaves: two well-formed ones, an unknown condition_type, and comparisons
\* with an unknown operator on an attribute and on the age
ConditionLeaves ==
    {[condition_type |-> "True"],
     [condition_type |-> "False"],
     [condition_type |-> "Gender", gender |-> "M"],
     [condition_type |-> "Unknown"],
     [condition_type |-> "Attribute", attribute |-> "flag", operator |-> "~=", value |-> Num(1)],
     [condition_type |-> "Age", operator |-> "~=", quantity |-> 0, unit |-> "years"]}

\* the leaves, and the leaves under Not, And and Or
Conditions ==
    ConditionLeaves
    \cup {[condition_type |-> "Not", condition |-> c] : c \in ConditionLeaves}
    \cup {[condition_type |-> op, conditions |-> <<c, d>>] :
             op \in {"And", "Or"}, c \in ConditionLeaves, d \in ConditionLeaves}

ConditionInit ==
    /\ Idle
    /\ \E c \in Conditions, person \in FollowPersons, t \in {0, TickMs} :
          probe = [op |-> "input", condition |-> c, person |-> person, time |-> t,
                   result |-> ""]

\* evaluateCondition(condition, person, time)
EvaluateCall ==
    /\ probe.op = "input"
    /\ probe' = [probe EXCEPT !.op = "evaluate",
                              !.result = evaluateCondition(probe.condition, probe.person,
                                                           probe.time)]
    /\ UNCHANGED <<engines, instances, persons, nextId, lastCall, log>>

ConditionNext == EvaluateCall

SpecCondition == ConditionInit /\ [][ConditionNext]_vars

(***************************************************************************)
(* Attribute conditions with the operators 'is nil' and 'is not nil', on   *)
(* attributes that are unset or hold a value of each type, the condition   *)
(* written without a value or with one.                                    *)
(***************************************************************************)
NilOperators == {"is nil", "is not nil"}

\* what the attribute holds; Undefined stands for an attribute never set
NilValues ==
    {Undefined, Null, Num(0), Num(5), Num(-1), Bool(TRUE), Bool(FALSE), StrA, Obj(1)}

\* the condition's value field; Undefined stands for a condition without one
NilTargets == {Undefined, Null, Num(0), Num(5), Bool(TRUE), StrA}

NilCondition(operator, target) ==
    IF target = Undefined
    THEN [condition_type |-> "Attribute", attribute |-> "flag", operator |-> operator]
    ELSE [condition_type |-> "Attribute", attribute |-> "flag", operator |-> operator,
          value |-> target]

NilPerson(value) ==
    IF value = Undefined THEN NewPerson(1, Seeds[1], "M", 0)
    ELSE AttrSet(NewPerson(1, Seeds[1], "M", 0), "flag", value)

NilInit ==
    /\ Idle
    /\ \E operator \in NilOperators, value \in NilValues, target \in NilTargets :
          probe = [op |-> "input", condition |-> NilCondition(operator, target),
                   person |-> NilPerson(value), time |-> 0, result |-> ""]

NilNext == EvaluateCall

SpecNil == NilInit /\ [][NilNext]_vars

(***************************************************************************)
(* Engines of modules on which process fails: without Initial state, with  *)
(* a transition to a state that does not exist, with a cycle.              *)
(***************************************************************************)
\* Initial -> Wait (1 second) -> Branch: M -> Mark -> bad, others ->
\* Set_Value -> Terminal; Ping and Pong form a cycle
FailModule(withInitial, bad) ==
    [name |-> "Fail Test",
     order |-> <<"Initial", "Wait", "Branch", "Mark", "Set_Value", "Ping", "Pong", "Terminal">>,
     states |-> [Initial |-> [type |-> IF withInitial THEN "Initial" ELSE "Simple",
                              direct_transition |-> "Wait"],
                 Wait |-> [type |-> "Delay", exact |-> [quantity |-> 1, unit |-> "seconds"],
                           direct_transition |-> "Branch"],
                 Branch |-> [type |-> "Simple",
                             conditional_transition |->
                                 <<[condition |-> [condition_type |-> "Gender", gender |-> "M"],
                                    transition |-> "Mark"],
                                   [transition |-> "Set_Value"]>>],
                 Mark |-> Set("marked", Bool(TRUE), bad),
                 Set_Value |-> Set("test_value", Num(42), "Terminal"),
                 Ping |-> [type |-> "Simple", direct_transition |-> "Pong"],
                 Pong |-> [type |-> "Simple", direct_transition |-> "Ping"],
                 Terminal |-> TerminalDef]]

FailModules ==
    {FailModule(FALSE, "Ping"), FailModule(TRUE, "Ping"), FailModule(TRUE, "Missing")}

FailNext ==
    \/ \E m \in FailModules : Construct(m)
    \/ Len(engines) = 1 /\ Clone(1)
    \/ \E e \in 1..Len(engines), p \in PersonIds, t \in Times : Process(e, p, t)

SpecFail == Init /\ [][FailNext]_vars

(***************************************************************************)
(* LazyModuleSupplier and ModuleLoader over one source file.  The file is  *)
(* [version, hasName, hasStates]; a parsed module is an object of modules  *)
(* (its address is its index), an engine an object of built.  getModule    *)
(* and getEngine are asynchronous: a call that finds no cache is pending   *)
(* until the source has been read and its continuation has run.            *)
(***************************************************************************)
MaxVersion == 2

MaxPending == 2

MaxParses == 2

NoJson == [version |-> 0, hasName |-> FALSE, hasStates |-> FALSE]

NoReturn == [call |-> "", value |-> 0, threw |-> FALSE, json |-> NoJson, errors |-> <<>>]

\* a getModule() that tests the name only
SourceRejectedByName(json) == ~json.hasName

\* !json.name || !json.states
SourceRejected(json) == ~json.hasName \/ ~json.hasStates

\* new LazyModuleSupplier(info) on a file written before; a new ModuleLoader
SupplierInit ==
    /\ Idle
    /\ \E hasName \in BOOLEAN, hasStates \in BOOLEAN :
          probe = [op |-> "new",
                   file |-> [version |-> 1, hasName |-> hasName, hasStates |-> hasStates],
                   cachedModule |-> 0, cachedEngine |-> 0,
                   modules |-> <<>>, built |-> <<>>, pending |-> <<>>,
                   reads |-> 0, asked |-> FALSE, firstDone |-> 0, cleared |-> FALSE,
                   staleEngines |-> {}, staleModules |-> {}, last |-> NoReturn,
                   loaded |-> {}, suppliers |-> {}]

\* the source file is rewritten
WriteSource ==
    /\ probe.file.version < MaxVersion
    /\ \E hasName \in BOOLEAN, hasStates \in BOOLEAN :
          probe' = [probe EXCEPT !.op = "write",
                                 !.file = [version |-> probe.file.version + 1,
                                           hasName |-> hasName, hasStates |-> hasStates]]
    /\ UNCHANGED <<engines, instances, persons, nextId, lastCall, log>>

\* getModule() up to its await: the cached module, or a read to wait for
GetModuleCall ==
    /\ IF probe.cachedModule # 0
       THEN probe' = [probe EXCEPT !.op = "getModule", !.asked = TRUE, !.cleared = FALSE,
                                   !.last = [NoReturn EXCEPT !.call = "getModule",
                                                             !.value = probe.cachedModule]]
       ELSE /\ Len(probe.pending) < MaxPending
            /\ probe.reads + Len(probe.pending) < MaxParses
            /\ probe' = [probe EXCEPT !.op = "getModule", !.asked = TRUE, !.cleared = FALSE,
                                      !.pending = Append(@, [call |-> "getModule",
                                                             module |-> 0, json |-> NoJson,
                                                             stale |-> FALSE])]
    /\ UNCHANGED <<engines, instances, persons, nextId, lastCall, log>>

\* getEngine() up to its await: the cached engine, or getModule() to wait for
GetEngineCall ==
    /\ IF probe.cachedEngine # 0
       THEN probe' = [probe EXCEPT !.op = "getEngine", !.asked = TRUE,
                                   !.last = [NoReturn EXCEPT !.call = "getEngine",
                                                             !.value = probe.cachedEngine]]
       ELSE /\ Len(probe.pending) < MaxPending
            /\ probe.reads + Len(probe.pending) < MaxParses
            /\ probe' = [probe EXCEPT !.op = "getEngine", !.asked = TRUE, !.cleared = FALSE,
                                      !.pending = Append(@, [call |-> "getEngine",
                                                             module |-> probe.cachedModule,
                                                             json |-> NoJson,
                                                             stale |-> FALSE])]
    /\ UNCHANGED <<engines, instances, persons, nextId, lastCall, log>>

\* file.json() of a pending call reads and parses the source
ReadSource(i) ==
    /\ probe.pending[i].module = 0
    /\ probe.pending[i].json = NoJson
    /\ probe' = [probe EXCEPT !.op = "read", !.reads = @ + 1,
                              !.pending[i].json = probe.file]
    /\ UNCHANGED <<engines, instances, persons, nextId, lastCall, log>>

\* the continuation of a pending call: getModule checks and caches what it
\* read and returns it; getEngine then builds and caches an engine
Resume(i) ==
    /\ probe.pending[i].module # 0 \/ probe.pending[i].json # NoJson
    /\ LET call == probe.pending[i]
           rest == [k \in 1..(Len(probe.pending) - 1) |->
                       IF k < i THEN probe.pending[k] ELSE probe.pending[k + 1]]
           parsed == call.module = 0
           module == IF parsed THEN Len(probe.modules) + 1 ELSE call.module
           engine == Len(probe.built) + 1
       IN  IF parsed /\ SourceRejected(call.json)
           THEN probe' = [probe EXCEPT !.op = "resume", !.pending = rest,
                                       !.last = [NoReturn EXCEPT !.call = call.call,
                                                                 !.threw = TRUE,
                                                                 !.json = call.json]]
           ELSE probe' =
                  [probe EXCEPT
                     !.op = "resume", !.pending = rest,
                     !.modules = IF parsed THEN Append(@, call.json) ELSE @,
                     !.cachedModule = IF parsed THEN module ELSE @,
                     !.firstDone = IF @ = 0 THEN module ELSE @,
                     !.staleModules = IF parsed /\ call.stale THEN @ \cup {module} ELSE @,
                     !.built = IF call.call = "getEngine" THEN Append(@, [module |-> module])
                               ELSE @,
                     !.cachedEngine = IF call.call = "getEngine" THEN engine ELSE @,
                     !.last = [NoReturn EXCEPT
                                  !.call = call.call, !.json = call.json,
                                  !.value = IF call.call = "getEngine" THEN engine ELSE module]]
    /\ UNCHANGED <<engines, instances, persons, nextId, lastCall, log>>

\* clearCache(); a pending call that has read the source by now holds
\* content read before the invalidation (stale)
ClearCache ==
    /\ probe.op # "clearCache"
    /\ probe' = [probe EXCEPT !.op = "clearCache", !.cachedModule = 0, !.cachedEngine = 0,
                              !.firstDone = 0, !.cleared = TRUE,
                              !.pending = [k \in 1..Len(@) |->
                                              [@[k] EXCEPT
                                                  !.stale = @ \/ probe.pending[k].json # NoJson]],
                              !.staleEngines = @ \cup ({probe.cachedEngine} \ {0})]
    /\ UNCHANGED <<engines, instances, persons, nextId, lastCall, log>>

\* ModuleLoader.loadModule(path), with a supplier of its own (module-loader.ts)
\* or reading the file itself: a source that is rejected, or whose engine
\* cannot be constructed, gives the 'Failed to load module' result
LoadModule(bySupplier) ==
    /\ probe.op # "loadModule"
    /\ LET json == probe.file
           failed == SourceRejected(json) \/ ~json.hasStates
       IN  probe' = [probe EXCEPT
                        !.op = "loadModule",
                        !.suppliers = IF bySupplier THEN @ \cup {json.hasName} ELSE @,
                        !.loaded = IF failed THEN @ ELSE @ \cup {json},
                        !.last = [NoReturn EXCEPT
                                     !.call = "loadModule", !.json = json,
                                     !.errors = IF failed THEN <<"Failed to load module">>
                                                ELSE <<>>]]
    /\ UNCHANGED <<engines, instances, persons, nextId, lastCall, log>>

SupplierNext ==
    \/ WriteSource
    \/ GetModuleCall
    \/ GetEngineCall
    \/ \E i \in 1..Len(probe.pending) : ReadSource(i)
    \/ \E i \in 1..Len(probe.pending) : Resume(i)
    \/ ClearCache
    \/ \E bySupplier \in BOOLEAN : LoadModule(bySupplier)

SpecSupplier == SupplierInit /\ [][SupplierNext]_vars

(***************************************************************************)
(* Random streams on their own.  probe.streams lists the Random instances  *)
(* alive: the first is globalRandom, seeded from the clock when the module *)
(* is loaded; the others are made by new Random(seed).  Each instance      *)
(* keeps the seed it was constructed with (seed0), its current seed and    *)
(* out, the list of what its calls returned: value is the seed after the   *)
(* call (random() returns seed / 2^32), result the integer derived from it.*)
(***************************************************************************)
MaxStreams == 3

MaxDraws == 2

MaxClock == 1

StreamSeeds == {Seeds[1], Seeds[2]}

ChoiceSizes == {2, 6}

\* new Random(seed)
NewRandom(seed) == [seed0 |-> seed, seed |-> Limbs(seed), out |-> <<>>]

\* a call of random() that draws from globalRandom whatever the receiver
randomShared(streams, i) ==
    LET next == RandomNext(streams[1].seed)
    IN  [streams |-> [streams EXCEPT ![1].seed = next], value |-> next]

\* random() on instance i: this.seed = (a * this.seed + c) % m; return
\* this.seed / m.  Gives the instances afterwards and the seed returned.
random(streams, i) ==
    LET next == RandomNext(streams[i].seed)
    IN  [streams |-> [streams EXCEPT ![i].seed = next], value |-> next]

\* Math.floor(value * n) for value = seed / 2^32
FloorTimes(s, n) == (s.hi * n + ((s.lo * n) \div LimbBase)) \div LimbBase

\* randomInt(min, max) on an instance whose random() returned value
randomInt(value, min, max) == FloorTimes(value, max - min) + min

RandomInit ==
    /\ Idle
    /\ \E now \in 0..MaxClock :
          probe = [op |-> "load", clock |-> now, streams |-> <<NewRandom(now)>>]

\* new Random(seed) by some caller
RandomConstruct ==
    /\ Len(probe.streams) < MaxStreams
    /\ \E seed \in StreamSeeds :
          probe' = [probe EXCEPT !.op = "new",
                                 !.streams = Append(@, NewRandom(seed))]
    /\ UNCHANGED <<engines, instances, persons, nextId, lastCall, log>>

\* instance.random()
RandomCall ==
    /\ \E i \in 1..Len(probe.streams) :
          /\ Len(probe.streams[i].out) < MaxDraws
          /\ \E call \in {random(probe.streams, i)} :
                probe' = [probe EXCEPT
                            !.op = "random",
                            !.streams = [call.streams EXCEPT ![i].out =
                                Append(@, [op |-> "random", n |-> 0,
                                           value |-> call.value, result |-> 0])]]
    /\ UNCHANGED <<engines, instances, persons, nextId, lastCall, log>>

\* instance.randomInt(0, n), as choice and shuffle call it
RandomIntCall ==
    /\ \E i \in 1..Len(probe.streams), n \in ChoiceSizes :
          /\ Len(probe.streams[i].out) < MaxDraws
          /\ \E call \in {random(probe.streams, i)} :
                probe' = [probe EXCEPT
                            !.op = "randomInt",
                            !.streams = [call.streams EXCEPT ![i].out =
                                Append(@, [op |-> "randomInt", n |-> n,
                                           value |-> call.value,
                                           result |-> randomInt(call.value, 0, n)])]]
    /\ UNCHANGED <<engines, instances, persons, nextId, lastCall, log>>

\* wall-clock time passes
ClockTick ==
    /\ probe.clock < MaxClock
    /\ probe' = [probe EXCEPT !.op = "tick", !.clock = @ + 1]
    /\ UNCHANGED <<engines, instances, persons, nextId, lastCall, log>>

RandomSpecNext == RandomConstruct \/ RandomCall \/ RandomIntCall \/ ClockTick

SpecRandom == RandomInit /\ [][RandomSpecNext]_vars

(***************************************************************************)
(* Active Condition and Active Medication on their own: a record of one or *)
(* two entries of the kind asked about, evaluated at a time.               *)
(***************************************************************************)
CodeA == [system |-> "SNOMED-CT", code |-> "44054006"]

CodeB == [system |-> "RxNorm", code |-> "860975"]

ActiveTimes == {-1, 0, 1, 2}

\* entries of a record: with or without an end, of any clinical status
ActiveEntries ==
    LET base == {[id |-> 1, type |-> "Entry", startTime |-> st, codes |-> <<cd>>,
                  clinicalStatus |-> cs] :
                    st \in ActiveTimes, cd \in {CodeA, CodeB},
                    cs \in {"active", "resolved"}}
    IN  base \cup {[id |-> e.id, type |-> e.type, startTime |-> e.startTime,
                    codes |-> e.codes, clinicalStatus |-> e.clinicalStatus,
                    endTime |-> e.startTime + len] : e \in base, len \in 0..2}

\* a second entry that is never active: it starts after every time asked
LaterEntry ==
    [id |-> 2, type |-> "Entry", startTime |-> 3, codes |-> <<CodeA>>,
     clinicalStatus |-> "active"]

ActiveInit ==
    /\ Idle
    /\ \E kind \in {"Active Condition", "Active Medication"}, e \in ActiveEntries,
          more \in BOOLEAN, t \in ActiveTimes :
          LET entries == IF more THEN <<LaterEntry, e>> ELSE <<e>>
              blank == NewPerson(1, Seeds[1], "M", 0)
          IN  probe = [op |-> "input",
                       condition |-> [condition_type |-> kind, codes |-> <<CodeA>>],
                       person |-> IF kind = "Active Condition"
                                  THEN [blank EXCEPT !.record.conditions = entries]
                                  ELSE [blank EXCEPT !.record.medications = entries],
                       time |-> t, result |-> ""]

ActiveNext == EvaluateCall

SpecActive == ActiveInit /\ [][ActiveNext]_vars

(***************************************************************************)
(* The Age condition on its own: a person born at time 0, asked at an age  *)
(* of some days; ages around one week and around seven days.               *)
(***************************************************************************)
AgeUnits == {"years", "months", "weeks", "days", "hours", ""}

AgeQuantities == {0, 1, 2, 7}

AgeOperators == {"<", "<=", ">", ">=", "==", "!="}

\* ages in milliseconds: before birth, at birth, one day, 6.98 and 6.99
\* days, one week less and more a millisecond, two weeks
AgesInMs ==
    {-1000, 0, MsPerDay, 603000000, 604000000, 7 * MsPerDay - 1, 7 * MsPerDay,
     7 * MsPerDay + 1, 14 * MsPerDay}

AgeCondition(unit, quantity, operator) ==
    IF unit = ""
    THEN [condition_type |-> "Age", operator |-> operator, quantity |-> quantity]
    ELSE [condition_type |-> "Age", operator |-> operator, quantity |-> quantity,
          unit |-> unit]

AgeInit ==
    /\ Idle
    /\ \E u \in AgeUnits, q \in AgeQuantities, o \in AgeOperators, a \in AgesInMs :
          probe = [op |-> "input", condition |-> AgeCondition(u, q, o),
                   person |-> NewPerson(1, Seeds[1], "M", 0), time |-> a, result |-> ""]

AgeNext == EvaluateCall

SpecAge == AgeInit /\ [][AgeNext]_vars

(***************************************************************************)
(* The generator: the loader builds one engine per module loaded without   *)
(* errors, and generatePerson simulates a person's life on every loaded    *)
(* module, from birth to the reference time, one process call per          *)
(* timestep.  probe holds the options and the set of persons generated;    *)
(* log[p] lists the process calls made for person p.                       *)
(***************************************************************************)
GenerateInit ==
    /\ Idle
    /\ \E referenceTime \in Times, steps \in 1..2 :
          probe = [op |-> "options", referenceTime |-> referenceTime,
                   timestep |-> steps * TickMs, generated |-> {}, failed |-> {}]

\* the while loop of generatePerson on engine e: g = [inst, person, nextId,
\* calls, failed]; a process call that throws ends the generation
RECURSIVE SimulateLife(_, _, _, _, _)
SimulateLife(g, e, time, endTime, timestep) ==
    IF g.failed \/ time > endTime \/ Falsy(AttrGet(g.person, "alive")) THEN g
    ELSE SimulateLife(
            CHOOSE r \in {[inst |-> w.inst,
                           person |-> PersonAfter(w, contextKey(engines[e].module)),
                           nextId |-> w.nextId,
                           calls |-> Append(g.calls, [engine |-> e, time |-> time]),
                           failed |-> IsError(w.outcome)] :
                            w \in {ProcessWalkFrom(g.inst, e, g.person, time, g.nextId)}} : TRUE,
            e, time + timestep, endTime, timestep)

\* moduleLoader.loadAllModules(directory) for a directory of one module
LoadAllModules == \E m \in Modules \cup {UnknownTypeModule} : Construct(m)

\* generatePerson(seed), and the body of the loop over seeds of
\* handleGenerate: every loaded module's engine processes the person
GeneratePerson(p) ==
    /\ lastCall.op # "none"
    /\ p \notin probe.generated
    /\ \E g \in {IF Len(engines) = 0
                 THEN [inst |-> instances, person |-> persons[p], nextId |-> nextId,
                       calls |-> <<>>, failed |-> FALSE]
                 ELSE SimulateLife([inst |-> instances, person |-> persons[p],
                                    nextId |-> nextId, calls |-> <<>>, failed |-> FALSE],
                                   1, persons[p].birthDate, probe.referenceTime,
                                   probe.timestep)} :
          /\ persons' = [persons EXCEPT ![p] = g.person]
          /\ instances' = g.inst
          /\ nextId' = g.nextId
          /\ log' = [log EXCEPT ![p] = g.calls]
          /\ probe' = [probe EXCEPT !.op = "generatePerson",
                                    !.generated = @ \cup {p},
                                    !.failed = IF g.failed THEN @ \cup {p} ELSE @]
          /\ lastCall' = [NoCall EXCEPT !.op = "generate", !.person = p]
    /\ UNCHANGED engines

GenerateNext == LoadAllModules \/ \E p \in PersonIds : GeneratePerson(p)

SpecGenerate == GenerateInit /\ [][GenerateNext]_vars

(***************************************************************************)
(* Two weighted choices in one run: Initial -> First (weighted) -> One_A   *)
(* or One_B -> Wait (1 second) -> Second (weighted) -> Two_A or Two_B ->   *)
(* Terminal, for entities of several seeds.                                *)
(***************************************************************************)
MaxEntitySeed == 8

EntitySeeds == (0..MaxEntitySeed) \cup StreamSeeds

StreamModule(weight) ==
    [name |-> "Two Draws",
     order |-> <<"Initial", "First", "One_A", "One_B", "Wait", "Second", "Two_A", "Two_B",
                 "Terminal">>,
     states |-> [Initial |-> [type |-> "Initial", direct_transition |-> "First"],
                 First |-> [type |-> "Simple",
                            distributed_transition |->
                                <<[transition |-> "One_A", distribution |-> weight],
                                  [transition |-> "One_B",
                                   distribution |-> WeightScale - weight]>>],
                 One_A |-> Set("first", StrA, "Wait"),
                 One_B |-> Set("first", StrB, "Wait"),
                 Wait |-> [type |-> "Delay", exact |-> [quantity |-> 1, unit |-> "seconds"],
                           direct_transition |-> "Second"],
                 Second |-> [type |-> "Simple",
                             distributed_transition |->
                                 <<[transition |-> "Two_A", distribution |-> weight],
                                   [transition |-> "Two_B",
                                    distribution |-> WeightScale - weight]>>],
                 Two_A |-> Set("second", StrA, "Terminal"),
                 Two_B |-> Set("second", StrB, "Terminal"),
                 Terminal |-> TerminalDef]]

StreamInit ==
    /\ engines = <<>>
    /\ instances = <<>>
    /\ \E seed \in EntitySeeds :
          persons = [p \in PersonIds |-> NewPerson(p, seed + p - 1, "F", 0)]
    /\ nextId = 1
    /\ lastCall = NoCall
    /\ log = [p \in PersonIds |-> <<>>]
    /\ probe = <<>>

StreamModules == {StreamModule(3000), StreamModule(5000)}

StreamNext ==
    \/ \E m \in StreamModules : Construct(m)
    \/ \E p \in PersonIds, t \in Times : Len(engines) = 1 /\ Process(1, p, t)

SpecStream == StreamInit /\ [][StreamNext]_vars

(***************************************************************************)
(* Dead ends: chains S1 (Initial) -> S2 -> ... -> Sn -> Terminal where Sn  *)
(* is a Simple state with a Conditional or a Complex transition: in the    *)
(* short chains it matches male entities only, in the chains of 1000       *)
(* states it matches nobody.                                               *)
(***************************************************************************)
IsMale == [condition_type |-> "Gender", gender |-> "M"]

DeadEndState(kind, condition, target) ==
    IF kind = "conditional"
    THEN [type |-> "Simple",
          conditional_transition |-> <<[condition |-> condition, transition |-> target]>>]
    ELSE [type |-> "Simple",
          complex_transition |->
              <<[condition |-> condition,
                 distributions |-> <<[transition |-> target, distribution |-> WeightScale]>>],
                [condition |-> [condition_type |-> "False"], transition |-> ChainName(1)]>>]

DeadEndModule(n, kind) ==
    [name |-> "Dead End " \o ToString(n) \o " " \o kind,
     order |-> [i \in 1..(n + 1) |-> ChainName(i)],
     states |-> [s \in {ChainName(i) : i \in 1..(n + 1)} |->
                    IF s = ChainName(n + 1) THEN TerminalDef
                    ELSE IF s = ChainName(n)
                    THEN DeadEndState(kind,
                                      IF n = maxIterations
                                      THEN [condition_type |-> "False"] ELSE IsMale,
                                      ChainName(n + 1))
                    ELSE LET i == CHOOSE k \in 1..n : s = ChainName(k)
                         IN  [type |-> IF i = 1 THEN "Initial" ELSE "Simple",
                              direct_transition |-> ChainName(i + 1)]]]

DeadEndModules ==
    {DeadEndModule(n, kind) : n \in {3, maxIterations}, kind \in {"conditional", "complex"}}

\* the engine processes a person; the chains of 1000 states are run for
\* person 1 only
DeadEndProcess(p, time) ==
    /\ Len(engines) = 1
    /\ Len(engines[1].module.order) > maxIterations => p = 1
    /\ Process(1, p, time)

DeadEndNext ==
    \/ \E m \in DeadEndModules : Construct(m)
    \/ \E p \in PersonIds, t \in Times : DeadEndProcess(p, t)

SpecDeadEnd == Init /\ [][DeadEndNext]_vars

(***************************************************************************)
(* Transitions to states that may be missing: Initial -> Second (male ->   *)
(* tC, others -> Choice) -> Choice (weighted: Branch or tW; with a direct  *)
(* transition to Branch in front when shadowed) -> Branch (female ->       *)
(* weighted: Terminal or tX; others -> Terminal).                          *)
(***************************************************************************)
LookupModule(shadowed, tC, tW, tX, wC, wB) ==
    LET dist == <<[transition |-> "Branch", distribution |-> wC],
                  [transition |-> tW, distribution |-> WeightScale - wC]>>
    IN  [name |-> "Lookup Test",
         order |-> <<"Initial", "Second", "Choice", "Branch", "Terminal">>,
         states |->
            [Initial |-> [type |-> "Initial", direct_transition |-> "Second"],
             Second |-> [type |-> "Simple",
                         conditional_transition |->
                             <<[condition |-> [condition_type |-> "Gender", gender |-> "M"],
                                transition |-> tC],
                               [transition |-> "Choice"]>>],
             Choice |-> IF shadowed
                        THEN [type |-> "Simple", direct_transition |-> "Branch",
                              distributed_transition |-> dist]
                        ELSE [type |-> "Simple", distributed_transition |-> dist],
             Branch |-> [type |-> "Simple",
                         complex_transition |->
                             <<[condition |-> [condition_type |-> "Gender", gender |-> "F"],
                                distributions |->
                                    <<[transition |-> "Terminal", distribution |-> wB],
                                      [transition |-> tX,
                                       distribution |-> WeightScale - wB]>>],
                               [transition |-> "Terminal"]>>],
             Terminal |-> TerminalDef]]

LookupModules ==
    {LookupModule(sh, tC, tW, tX, wC, wB) :
        sh \in BOOLEAN, tC \in TargetChoices, tW \in TargetChoices, tX \in TargetChoices,
        wC \in {3000, 7000}, wB \in {3000, 7000}}

LookupProcess(p, time) == Len(engines) = 1 /\ Process(1, p, time)

LookupNext ==
    \/ \E m \in LookupModules : Construct(m)
    \/ \E p \in PersonIds, t \in Times : LookupProcess(p, t)

SpecLookup == Init /\ [][LookupNext]_vars

(***************************************************************************)
(* Modules that write the record.  Record Loop appends a condition and an  *)
(* encounter every two seconds and overwrites the attribute that refers to *)
(* the encounter; the Effect modules end in a state with an effect whose   *)
(* transition is absent or matches only male persons.                      *)
(***************************************************************************)
RecordLoopModule ==
    [name |-> "Record Loop",
     order |-> <<"Initial", "Onset", "Visit", "Forget", "Wait">>,
     states |-> [Initial |-> [type |-> "Initial", direct_transition |-> "Onset"],
                 Onset |-> [type |-> "ConditionOnset", codes |-> <<CodeA>>,
                            assign_to_attribute |-> "diagnosis",
                            direct_transition |-> "Visit"],
                 Visit |-> [type |-> "Encounter", reason |-> CodeA.code,
                            codes |-> <<CodeB>>, direct_transition |-> "Forget"],
                 Forget |-> Set("current_encounter", Num(0), "Wait"),
                 Wait |-> [type |-> "Delay", exact |-> [quantity |-> 2, unit |-> "seconds"],
                           direct_transition |-> "Onset"]]]

EffectKinds == {"Encounter", "ConditionOnset", "SetAttribute"}

\* a state with an effect, without its transition
EffectState(kind) ==
    CASE kind = "Encounter" -> [type |-> "Encounter", codes |-> <<CodeB>>]
      [] kind = "ConditionOnset" -> [type |-> "ConditionOnset", codes |-> <<CodeA>>]
      [] kind = "SetAttribute" ->
            [type |-> "SetAttribute", attribute |-> "seen", value |-> Bool(TRUE)]

\* Initial -> Effect: male -> Terminal, nobody else anywhere; or Effect
\* without a transition
EffectModule(kind, guarded) ==
    LET effect == EffectState(kind)
        gate == <<[condition |-> IsMale, transition |-> "Terminal"]>>
    IN  [name |-> "Effect " \o kind \o (IF guarded THEN " guarded" ELSE " last"),
         order |-> <<"Initial", "Effect", "Terminal">>,
         states |->
            [Initial |-> [type |-> "Initial", direct_transition |-> "Effect"],
             Effect |-> IF guarded
                        THEN [k \in DOMAIN effect \cup {"conditional_transition"} |->
                                 IF k = "conditional_transition" THEN gate ELSE effect[k]]
                        ELSE effect,
             Terminal |-> TerminalDef]]

RecordModules ==
    {RecordLoopModule} \cup {EffectModule(k, g) : k \in EffectKinds, g \in BOOLEAN}

RecordProcess(p, time) ==
    /\ Len(engines) = 1
    /\ Process(1, p, time)

RecordNext ==
    \/ \E m \in RecordModules : Construct(m)
    \/ \E p \in PersonIds, t \in Times : RecordProcess(p, t)

SpecRecord == Init /\ [][RecordNext]_vars

(***************************************************************************)
(* One constructed engine serving two entities whose process calls         *)
(* overlap.  process is an async function: it runs without interruption    *)
(* up to `await state.process(person, time)`, where the state's process    *)
(* has already run, and goes on from there in a later turn.  flight[p] is  *)
(* the call in flight for person p, suspended at that await: <<>>, or the  *)
(* walk, the call's time and what the state's process returned.  solo[p]   *)
(* is the person that the same calls produce when every call runs to its   *)
(* end with nothing in between, on State objects soloInst[p] and with      *)
(* identifiers counted from soloId[p].                                     *)
(***************************************************************************)
ServeModules ==
    {DelayModule, DelayLoopModule, DistributedModule, ConditionalModule, ComplexModule,
     RecordLoopModule, FailModule(FALSE, "Ping")}

ServeInit ==
    /\ Idle
    /\ probe = [flight |-> [p \in PersonIds |-> <<>>],
                solo |-> persons,
                soloInst |-> [p \in PersonIds |-> <<>>],
                soloId |-> [p \in PersonIds |-> 1],
                overlapped |-> FALSE]

\* the walk goes into the next iteration: iterations++ happens when the
\* iteration is accounted for in AfterState; the state's process runs now
CallState(w, time) ==
    [w |-> w, time |-> time,
     res |-> StateProcess(DefOf(w.ctx.cur), RtOf(w, w.ctx.cur), w.person, time, w.nextId)]

\* the person as the suspended call has left it in memory: the state's
\* process has written the person and its own State object
Suspended(f, key) ==
    PersonAfter([f.w EXCEPT !.person = f.res.person,
                            !.ctx.cur = IF @.shared THEN @ ELSE [@ EXCEPT !.rt = f.res.rt]],
                key)

\* the call of person p ends with walk w
ServeEnd(p, w, time) ==
    /\ persons' = [persons EXCEPT ![p] = PersonAfter(w, contextKey(engines[1].module))]
    /\ instances' = w.inst
    /\ nextId' = w.nextId
    /\ lastCall' = [NoCall EXCEPT !.op = "process", !.engine = 1, !.person = p,
                                  !.time = time, !.outcome = w.outcome,
                                  !.iterations = w.iterations, !.last = w.last,
                                  !.sawTerminal = w.sawTerminal,
                                  !.advanced = w.advanced, !.missing = w.missing]

\* the call of person p is suspended at the await, as f
ServeAwait(p, f) ==
    /\ persons' = [persons EXCEPT ![p] = Suspended(f, contextKey(engines[1].module))]
    /\ instances' = IF f.w.ctx.cur.shared
                    THEN [f.w.inst EXCEPT ![f.w.ctx.cur.eng][f.w.ctx.cur.name] = f.res.rt]
                    ELSE f.w.inst
    /\ nextId' = f.res.nextId
    /\ UNCHANGED lastCall

\* engine.process(person, time) is called, while calls for other persons
\* may be in flight
ServeBegin(p, time) ==
    /\ Len(engines) = 1
    /\ CallsMade < MaxCalls
    /\ probe.flight[p] = <<>>
    /\ Len(log[p]) > 0 => time >= LastTime(p)
    /\ log' = [log EXCEPT ![p] = Append(@, [engine |-> 1, time |-> time])]
    /\ \E w0 \in {StartWalk(instances, 1, persons[p], time, nextId)},
          alone \in {ProcessWalkFrom(IF probe.soloInst[p] = <<>> THEN instances
                                     ELSE probe.soloInst[p],
                                     1, probe.solo[p], time, probe.soloId[p])} :
          /\ IF w0.running
             THEN \E f \in {CallState(w0, time)} :
                      /\ ServeAwait(p, f)
                      /\ probe' = [probe EXCEPT
                            !.flight[p] = <<f>>,
                            !.solo[p] = PersonAfter(alone, contextKey(engines[1].module)),
                            !.soloInst[p] = alone.inst,
                            !.soloId[p] = alone.nextId,
                            !.overlapped = @ \/ \E q \in PersonIds \ {p} :
                                                   probe.flight[q] # <<>>]
             ELSE /\ ServeEnd(p, w0, time)
                  /\ probe' = [probe EXCEPT
                            !.solo[p] = PersonAfter(alone, contextKey(engines[1].module)),
                            !.soloInst[p] = alone.inst,
                            !.soloId[p] = alone.nextId]
    /\ UNCHANGED engines

\* the call of person p goes on after its await: the rest of the iteration
\* and, if the loop goes on, the next state's process
ServeResume(p) ==
    /\ probe.flight[p] # <<>>
    /\ LET f == probe.flight[p][1]
           w == [f.w EXCEPT !.inst = instances]
       IN  \E w1 \in {AfterState(w, 1, f.time, w.ctx.cur, DefOf(w.ctx.cur),
                                 [f.res EXCEPT !.nextId = nextId])} :
              IF w1.running /\ w1.iterations < maxIterations
              THEN \E g \in {CallState(w1, f.time)} :
                      /\ ServeAwait(p, g)
                      /\ probe' = [probe EXCEPT !.flight[p] = <<g>>]
              ELSE /\ ServeEnd(p, AfterLoop(w1), f.time)
                   /\ probe' = [probe EXCEPT !.flight[p] = <<>>]
    /\ UNCHANGED <<engines, log>>

ServeNext ==
    \/ \E m \in ServeModules : Construct(m)
    \/ \E p \in PersonIds, t \in Times : ServeBegin(p, t)
    \/ \E p \in PersonIds : ServeResume(p)

SpecServe == ServeInit /\ [][ServeNext]_vars

(***************************************************************************)
(* Engines of several modules, one per module name as a loader holds them, *)
(* processing the same persons.  The Clobber modules set an attribute      *)
(* whose name is the key of the run context of the Delay Test module.      *)
(***************************************************************************)
MaxLoaded == 2

ClobberValues == {Num(0), Num(5), Bool(TRUE), StrA}

\* Initial -> Mark (sets the attribute module_context_Delay Test) -> Terminal
ClobberModule(value) ==
    [name |-> "Clobber",
     order |-> <<"Initial", "Mark", "Terminal">>,
     states |-> [Initial |-> [type |-> "Initial", direct_transition |-> "Mark"],
                 Mark |-> Set(ContextAttribute(DelayModule.name), value, "Terminal"),
                 Terminal |-> TerminalDef]]

ContextModules ==
    {SimpleModule, DelayModule, DistributedModule}
       \cup {ClobberModule(value) : value \in ClobberValues}

\* new ModuleEngine(module) for one more module
Load(module) ==
    /\ Len(engines) < MaxLoaded
    /\ \A e \in 1..Len(engines) : engines[e].module.name # module.name
    /\ ~ConstructorThrows(module)
    /\ engines' = Append(engines, NewEngine(module, FALSE, Len(engines) + 1))
    /\ instances' = Append(instances, NewInstances(module))
    /\ lastCall' = [NoCall EXCEPT !.op = "construct", !.engine = Len(engines) + 1]
    /\ UNCHANGED <<persons, nextId, log, probe>>

ContextsNext ==
    \/ \E m \in ContextModules : Load(m)
    \/ \E e \in 1..Len(engines), p \in PersonIds, t \in Times : Process(e, p, t)

SpecContexts == Init /\ [][ContextsNext]_vars

(***************************************************************************)
(* Properties                                                              *)
(***************************************************************************)
HasCtx(p, key) == key \in DOMAIN persons[p].ctx

TypeAt(h) == IF h.eng = 0 THEN "" ELSE DefOf(h).type

\* the run of person p under key has reached a state of type Terminal: it is
\* the current state, or it is in the history
ReachedTerminal(p, key) ==
    /\ HasCtx(p, key)
    /\ \/ TypeAt(persons[p].ctx[key].cur) = "Terminal"
       \/ \E e \in 1..Len(engines) :
            /\ contextKey(engines[e].module) = key
            /\ \E i \in 1..Len(persons[p].ctx[key].history) :
                 LET n == persons[p].ctx[key].history[i]
                 IN  n \in DOMAIN engines[e].module.states
                     /\ engines[e].module.states[n].type = "Terminal"

\* C1. Terminal absorption: once the run of a module for an entity has
\* reached a Terminal state, every process call for that module and entity,
\* at any time, leaves the entity (history, current state, attributes,
\* record) as it was, and raises no error.
C1_TerminalAbsorption ==
    [][\A e \in 1..Len(engines), p \in PersonIds, t \in Times :
          (ReachedTerminal(p, contextKey(engines[e].module)) /\ Process(e, p, t))
              => (persons'[p] = persons[p] /\ ~IsError(lastCall'.outcome))]_vars

\* a process call made on a run that had already reached Terminal
C1_Witness ==
    /\ lastCall.op = "process"
    /\ lastCall.iterations = 1
    /\ lastCall.outcome = "stall"
    /\ lastCall.sawTerminal
    /\ Len(log[lastCall.person]) >= 2

CtxOf(p, key) == IF HasCtx(p, key) THEN persons[p].ctx[key] ELSE NewContext

\* the current state of person p under engine e's key is of this type
PositionedOn(e, p, type) == TypeAt(CtxOf(p, contextKey(engines[e].module)).cur) = type

GuardAllows(h, person, time) ==
    IF Has(DefOf(h), "allow") THEN evaluateCondition(DefOf(h).allow, person, time) ELSE "true"

\* C2 (as amended).  A process call that stalls on a Guard leaves the pointer
\* on the Guard with its condition false; a call that starts positioned on a
\* Guard whose condition is false changes nothing of the entity; a call that
\* starts positioned on a Guard whose condition holds advances past it and
\* has its name in history; and a Guard's name enters history only in a call
\* in which the Guard advanced.
C2_GuardSemantics ==
    [][\A e \in 1..Len(engines), p \in PersonIds, t \in Times :
          Process(e, p, t) =>
            LET key == contextKey(engines[e].module)
                c0 == CtxOf(p, key)
                c1 == persons'[p].ctx[key]
                call == lastCall'
            IN  /\ (call.outcome = "stall" /\ TypeAt(c1.cur) = "Guard")
                      => /\ c1.cur.name = call.last.name
                         /\ GuardAllows(c1.cur, persons'[p], t) = "false"
                /\ (TypeAt(c0.cur) = "Guard" /\ GuardAllows(c0.cur, persons[p], t) = "false")
                      => (persons'[p] = persons[p] /\ call.outcome = "stall")
                /\ (TypeAt(c0.cur) = "Guard" /\ GuardAllows(c0.cur, persons[p], t) = "true")
                      => (c0.cur.name \in call.advanced /\ InSeq(c1.history, c0.cur.name))
                /\ \A i \in 1..Len(c1.history) :
                      (~InSeq(c0.history, c1.history[i])) => c1.history[i] \in call.advanced]_vars

\* a call stalled on a Guard, and a later call advanced past that Guard
C2_Witness ==
    /\ lastCall.op = "process"
    /\ Len(log[lastCall.person]) >= 2
    /\ lastCall.iterations > 1
    /\ \E e \in 1..Len(engines) :
         LET c == CtxOf(lastCall.person, contextKey(engines[e].module))
         IN  /\ Len(c.history) >= 2
             /\ engines[e].module.states[c.history[2]].type = "Guard"
             /\ c.history[2] \in lastCall.advanced
             /\ c.history[2] = lastCall.last.name => lastCall.iterations > 2

\* C2 (as stated).  Whenever a process call stalls on a Guard, the Guard's
\* name is not in history.
C2_StalledGuardNotInHistory ==
    (lastCall.op = "process" /\ lastCall.outcome = "stall")
        => LET c == CtxOf(lastCall.person, contextKey(engines[lastCall.engine].module))
           IN  TypeAt(c.cur) = "Guard" => ~InSeq(c.history, c.cur.name)

\* the pointer rests on a state that would not advance now: a Terminal, a
\* Guard whose condition is false, a Delay that has not elapsed, or a state
\* whose transition gives no target
Resting(h, person, time) ==
    LET def == DefOf(h)
        rt == IF h.shared THEN instances[h.eng][h.name] ELSE h.rt
    IN  \/ def.type = "Terminal"
        \/ def.type = "Guard" /\ GuardAllows(h, person, time) = "false"
        \/ def.type = "Delay" /\ ~Falsy(rt.entered) /\ ~DelayElapsed(rt, time)
        \/ def.type = "Delay" /\ Falsy(rt.entered) /\ Has(def, "exact")
             /\ convertToMs(def.exact.quantity, def.exact.unit) > 0
        \/ def.type # "Terminal" /\ TransitionKind(def) = "none"
        \/ def.type # "Terminal" /\ TransitionKind(def) # "none"
             /\ Follow(def, person, time).kind = "null"

\* C9. Run-to-stall: when a process call returns normally, the current-state
\* pointer is on a state that stalled (a Guard with a false condition, a
\* Delay that has not elapsed), on a Terminal state, or on a state whose
\* transition returned no target.
C9_RunToStall ==
    (lastCall.op = "process" /\ ~IsError(lastCall.outcome))
        => LET c == CtxOf(lastCall.person, contextKey(engines[lastCall.engine].module))
           IN  c.cur.eng # 0 /\ Resting(c.cur, persons[lastCall.person], lastCall.time)

\* one call walked through several advancing states and then came to rest
C9_Witness ==
    /\ lastCall.op = "process"
    /\ ~IsError(lastCall.outcome)
    /\ lastCall.iterations >= 3
    /\ Cardinality(lastCall.advanced) >= 2

DelayMs(def) == convertToMs(def.exact.quantity, def.exact.unit)

\* C3. Delay semantics: a process call at time t that finds the entity
\* waiting on a Delay with an exact duration d, first processed at time t0,
\* advances past the Delay if and only if t >= t0 + d.
C3_DelaySemantics ==
    [][\A e \in 1..Len(engines), p \in PersonIds, t \in Times :
          (Process(e, p, t) /\ PositionedOn(e, p, "Delay"))
              => LET c0 == CtxOf(p, contextKey(engines[e].module))
                     def == DefOf(c0.cur)
                 IN  Has(def, "exact")
                        => ((c0.cur.name \in lastCall'.advanced)
                               <=> (t >= c0.arrived + DelayMs(def)))]_vars

OnlyOn(p, e) == \A i \in 1..Len(log[p]) : log[p][i].engine = e

NeverOn(p, e) == \A i \in 1..Len(log[p]) : log[p][i].engine # e

\* what engine e, its State objects as in inst, produces for this person
\* when asked to process it at time t, the identifiers it generates counted
\* from id: how the call ends, history, current state, attributes and record
Produces(inst, e, person, t, id) ==
    LET w == ProcessWalkFrom(inst, e, person, t, id)
    IN  [outcome |-> w.outcome, history |-> w.ctx.history, cur |-> w.ctx.cur.name,
         attributes |-> w.person.attributes, record |-> w.person.record]

\* C4. Clone isolation: a process call of one engine for entity X, which no
\* other engine has run, changes no other engine (its module definition and
\* its State objects), and does not change what any other engine produces,
\* at any time, for a different entity Y that this engine has not run.
C4_CloneIsolation ==
    [][\A e \in 1..Len(engines), x \in PersonIds, t \in Times :
          (Process(e, x, t) /\ OnlyOn(x, e))
              => /\ engines' = engines
                 /\ \A e2 \in 1..Len(engines) \ {e} :
                       /\ instances'[e2] = instances[e2]
                       /\ \A y \in PersonIds \ {x}, t2 \in Times :
                             NeverOn(y, e) => Produces(instances', e2, persons'[y], t2, nextId)
                                                 = Produces(instances, e2, persons[y], t2, nextId)]_vars

\* two engines cloned from the same engine, one has run person 1 and the
\* other person 2, each through a Delay that keeps its entry time
C4_Witness ==
    /\ lastCall.op = "process"
    /\ \E a, b \in 1..Len(engines) :
         /\ a # b /\ engines[a].isClone /\ engines[b].isClone
         /\ Len(log[1]) > 0 /\ OnlyOn(1, a)
         /\ Len(log[2]) > 0 /\ OnlyOn(2, b)
         /\ \E n \in DOMAIN instances[a] :
               ~Falsy(instances[a][n].entered) /\ ~Falsy(instances[b][n].entered)

\* the run context of person p under the module of engine 1
TwinCtx(p) == CtxOf(p, contextKey(engines[1].module))

\* C5. Clone equivalence: for the same entity and the same sequence of
\* process calls, an engine obtained by clone() leaves the same history,
\* attributes and record as a newly constructed engine.
C5_CloneEquivalence ==
    (Len(engines) = 2 /\ engines[2].isClone)
        => /\ TwinCtx(2).history = TwinCtx(1).history
           /\ persons[2].attributes = persons[1].attributes
           /\ persons[2].record = persons[1].record

HasDistributed(module) ==
    \E n \in NamesOf(module) :
        TransitionKind(module.states[n]) \in {"distributed", "complex"}

InitialCount(module) ==
    Cardinality({n \in NamesOf(module) : module.states[n].type = "Initial"})

\* the states a definition names as targets, over the four transition kinds
NamedTargets(def) ==
    (IF Has(def, "direct_transition") THEN {def.direct_transition} ELSE {})
    \cup (IF Has(def, "conditional_transition")
          THEN {def.conditional_transition[i].transition :
                    i \in 1..Len(def.conditional_transition)}
          ELSE {})
    \cup (IF Has(def, "distributed_transition")
          THEN {def.distributed_transition[i].transition :
                    i \in 1..Len(def.distributed_transition)}
          ELSE {})
    \cup (IF Has(def, "complex_transition")
          THEN UNION {(IF Has(def.complex_transition[i], "transition")
                       THEN {def.complex_transition[i].transition} ELSE {})
                      \cup (IF Has(def.complex_transition[i], "distributions")
                            THEN {def.complex_transition[i].distributions[k].transition :
                                      k \in 1..Len(def.complex_transition[i].distributions)}
                            ELSE {}) :
                      i \in 1..Len(def.complex_transition)}
          ELSE {})

WellFormed(module) ==
    /\ InitialCount(module) = 1
    /\ \A n \in NamesOf(module) : NamedTargets(module.states[n]) \subseteq NamesOf(module)
    /\ \A n \in NamesOf(module) :
          Has(module.states[n], "distributed_transition")
              => WeightsOk(module.states[n].distributed_transition)

\* C7. validate() of an engine that could be constructed returns an empty
\* list if and only if the module has exactly one state of type Initial,
\* every transition target names a defined state, and every Distributed
\* weight set sums to 1.0 within 0.001.
C7_ValidateIff ==
    lastCall.op = "validate"
        => ((lastCall.errors = <<>>) <=> WellFormed(engines[lastCall.engine].module))

\* the number of iterations the walk of this call makes when nothing but the
\* walk itself stops it, counted up to one past the cap
IterationsNeeded(e, person, time) ==
    RunLoop(StartWalk(instances, e, person, time, nextId), e, time, maxIterations + 1).iterations

\* C8. process raises the 'exceeded maximum iterations' error if and only if
\* the walk of the call needs more than 1000 iterations: a walk that stops
\* by a stall, a Terminal state or a dead end at or before the 1000th
\* iteration returns without error.
C8_IterationCap ==
    [][\A t \in Times :
          CapProcess(t)
              => ((lastCall'.outcome = "error: max iterations")
                     <=> (IterationsNeeded(1, persons[1], t) > maxIterations))]_vars

\* the condition of option o is absent or evaluates true
OptionMatches(o, person, time) ==
    ~Has(o, "condition") \/ evaluateCondition(o.condition, person, time) = "true"

\* evaluating the condition of option o throws
OptionThrows(o, person, time) ==
    Has(o, "condition") /\ evaluateCondition(o.condition, person, time) = "error"

\* option o has a condition and it evaluates false
OptionFails(o, person, time) ==
    Has(o, "condition") /\ evaluateCondition(o.condition, person, time) = "false"

\* C10. ConditionalTransition.follow returns the target of the first option,
\* in list order, whose condition is absent or evaluates true, and null when
\* no option matches (it throws if a condition evaluated before that throws);
\* a list whose last entry has no condition yields the last target whenever
\* every earlier condition is false.
C10_FirstMatch ==
    probe.op = "follow"
        => LET options == probe.options
               stops == {i \in 1..Len(options) :
                            \/ OptionMatches(options[i], probe.person, probe.time)
                            \/ OptionThrows(options[i], probe.person, probe.time)}
               first == CHOOSE i \in stops : \A j \in stops : i <= j
               n == Len(options)
           IN  /\ stops = {} => probe.result = NoTarget
               /\ (stops # {} /\ OptionMatches(options[first], probe.person, probe.time))
                     => probe.result = Target(options[first].transition)
               /\ (stops # {} /\ OptionThrows(options[first], probe.person, probe.time))
                     => probe.result = FollowError
               /\ (/\ n > 0
                   /\ ~Has(options[n], "condition")
                   /\ \A i \in 1..(n - 1) :
                         OptionFails(options[i], probe.person, probe.time))
                     => probe.result = Target(options[n].transition)

\* a list of three options, the last without condition, was followed for a
\* person who meets neither of the two conditions before it
C10_Witness ==
    /\ probe.op = "follow"
    /\ Len(probe.options) = 3
    /\ ~Has(probe.options[3], "condition")
    /\ \A i \in 1..2 :
          /\ OptionFails(probe.options[i], probe.person, probe.time)
          /\ probe.options[i].condition.condition_type \in {"Gender", "Attribute"}
    /\ probe.result = Target("T3")

\* C11. A Distributed transition with two options of weights 0.0 and 1.0,
\* in this order, chooses the 1.0 option for every entity seed.
C11_ZeroWeightNeverChosen ==
    (/\ probe.op = "draw"
     /\ probe.options[1].distribution = 0
     /\ probe.options[2].distribution = WeightScale)
        => probe.result = Target(probe.options[2].transition)

\* C12. Deep-copy round trip: the definition obtained by clone() or by
\* cloneModule() is value-equal to the original, and an assignment through
\* the copy, at any depth, leaves the original as it was (and the other way
\* round).
C12_DeepCopy ==
    [][/\ (CopyByClone \/ CopyBySupplier)
            => /\ probe'.copy # probe'.orig
               /\ ViewOf(probe'.heap, probe'.copy) = ViewOf(probe.heap, probe.orig)
               /\ ViewOf(probe'.heap, probe'.orig) = ViewOf(probe.heap, probe.orig)
       /\ \A depth \in {"name", "value", "entry"} :
             /\ Mutate("copy", depth)
                   => ViewOf(probe'.heap, probe'.orig) = ViewOf(probe.heap, probe.orig)
             /\ Mutate("orig", depth)
                   => ViewOf(probe'.heap, probe'.copy) = ViewOf(probe.heap, probe.copy)]_vars

\* the copy was changed at the depth of a state's literal value and differs
\* from the original there and nowhere else
C12_Witness ==
    /\ probe.op = "mutated"
    /\ probe.touched = probe.copy
    /\ Get(probe.heap, probe.copy, "name") = Get(probe.heap, probe.orig, "name")
    /\ Get(probe.heap, Get(probe.heap, Get(probe.heap, probe.copy, "states"), "Set_Value"), "value")
          # Get(probe.heap, Get(probe.heap, Get(probe.heap, probe.orig, "states"), "Set_Value"), "value")

\* the named property reached from a slot along keys
RECURSIVE GetPath(_, _, _)
GetPath(heap, slot, keys) ==
    IF keys = <<>> THEN slot ELSE GetPath(heap, Get(heap, slot, Head(keys)), Tail(keys))

\* the overrides of the manager that name the module or '*'
Matching ==
    {i \in 1..Len(probe.overrides) :
        probe.overrides[i].module \in {Get(probe.heap, probe.module, "name"), Str(0)}}

\* C13. applyOverrides never changes its input; when no override names the
\* module or '*' the returned definition equals the input; a value overridden
\* by the last override appears in the returned definition, in the named
\* state or, without a state, in every state.
C13_OverridesLeaveInput ==
    [][ApplyOverrides =>
        /\ ViewOf(probe'.heap, probe.module) = ViewOf(probe.heap, probe.module)
        /\ Matching = {} =>
              /\ ~probe'.threw
              /\ probe'.result # probe.module
              /\ ViewOf(probe'.heap, probe'.result) = ViewOf(probe.heap, probe.module)
        /\ (/\ Len(probe.overrides) \in Matching
            /\ ~probe'.threw
            /\ probe.overrides[Len(probe.overrides)].path = Path(<<"value">>)
            /\ probe.overrides[Len(probe.overrides)].state # "Missing")
              => \A name \in {"Initial", "Set_Value", "Terminal"} :
                    probe.overrides[Len(probe.overrides)].state \in {"", name}
                       => GetPath(probe'.heap, probe'.result, <<"states", name, "value">>)
                             = probe.overrides[Len(probe.overrides)].value]_vars

\* a wildcard override of a state's value was applied: the returned
\* definition holds the new value, the input the old one
C13_Witness ==
    /\ probe.op = "applied"
    /\ ~probe.threw
    /\ Len(probe.overrides) = 1
    /\ probe.overrides[1].module = Str(0)
    /\ GetPath(probe.heap, probe.result, <<"states", "Set_Value", "value">>) = Str(13)
    /\ GetPath(probe.heap, probe.module, <<"states", "Set_Value", "value">>) = Num(42)

\* C14. A single override that names the module and whose path refers to
\* something the definition does not have (a missing key, a missing state, an
\* index applied to a value that is not a list) is ignored: applyOverrides
\* does not throw and returns a definition equal to the input.
C14_MissingPathIgnored ==
    (/\ probe.op = "applied"
     /\ Len(probe.overrides) = 1
     /\ Matching = {1}
     /\ \/ probe.overrides[1].state = "Missing"
        \/ /\ probe.overrides[1].state = "Set_Value"
           /\ probe.overrides[1].path \in
                 {Path(<<"non", "existent", "path">>),
                  Path(<<"type">>) \o <<[key |-> "0", index |-> 0]>>,
                  Path(<<"states", "Missing", "value">>)}
        \/ /\ probe.overrides[1].state = ""
           /\ probe.overrides[1].path \in
                 {Path(<<"non", "existent", "path">>),
                  Path(<<"type">>) \o <<[key |-> "0", index |-> 0]>>,
                  Path(<<"states", "Missing", "value">>)})
        => /\ ~probe.threw
           /\ ViewOf(probe.heap, probe.result) = ViewOf(probe.heap, probe.module)

\* the (state, target) pairs of a module whose target is not one of its states
UnknownPairs(module) ==
    {pr \in NamesOf(module) \X {"Terminal", "Missing"} :
        pr[2] \in NamedTargets(module.states[pr[1]]) \ NamesOf(module)}

\* C16. validate() reports every violation: for a module without an Initial
\* state the missing-Initial message, and for every state and every unknown
\* target it names a message for that pair, whatever else is wrong with the
\* module; and every unknown-state message is about such a pair.
C16_ValidateReportsAll ==
    lastCall.op = "validate" =>
        LET module == engines[lastCall.engine].module
            errors == {lastCall.errors[i] : i \in 1..Len(lastCall.errors)}
        IN  /\ InitialCount(module) = 0
                  => [kind |-> "no Initial", state |-> "", target |-> ""] \in errors
            /\ \A pr \in UnknownPairs(module) :
                  [kind |-> "unknown state", state |-> pr[1], target |-> pr[2]] \in errors
            /\ \A err \in errors :
                  err.kind = "unknown state" => <<err.state, err.target>> \in UnknownPairs(module)

\* validate() of a module without Initial state and with unknown targets in
\* three states returned the missing-Initial message and three more
C16_Witness ==
    /\ lastCall.op = "validate"
    /\ InitialCount(engines[lastCall.engine].module) = 0
    /\ Cardinality(UnknownPairs(engines[lastCall.engine].module)) = 3
    /\ Len(lastCall.errors) >= 4

\* C17. Constructing an engine from a definition with a state whose type is
\* not registered fails in the constructor and leaves no engine; every engine
\* there is has a State object for every state of its definition, each of a
\* registered type.
C17_UnknownTypeFailsFast ==
    [][\A m \in ValidateModules \cup {UnknownTypeModule} :
          Construct(m) =>
             /\ (\E n \in NamesOf(m) : m.states[n].type \notin RegisteredTypes)
                   => /\ lastCall'.outcome = "error: constructor"
                      /\ lastCall'.errors[1].kind = "unknown type"
                      /\ engines' = <<>>
                      /\ instances' = <<>>
             /\ \A e \in 1..Len(engines') : \A n \in NamesOf(engines'[e].module) :
                   /\ engines'[e].module.states[n].type \in RegisteredTypes
                   /\ n \in DOMAIN engines'[e].states
                   /\ n \in DOMAIN instances'[engines'[e].states[n]]]_vars

\* the constructor threw and there is no engine
C17_Witness ==
    /\ lastCall.op = "construct"
    /\ lastCall.outcome = "error: constructor"
    /\ lastCall.errors = <<[kind |-> "unknown type", state |-> "Custom", target |-> "CustomType"]>>
    /\ engines = <<>>

\* the condition, or a condition nested in it, has a condition_type the
\* evaluator does not know or a comparison operator it does not know
RECURSIVE HasUnknownToken(_)
HasUnknownToken(c) ==
    \/ c.condition_type \notin {"Age", "Gender", "Attribute", "Symptom", "Observation",
                                "Active Condition", "Active Medication", "And", "Or",
                                "Not", "True", "False"}
    \/ /\ Has(c, "operator")
       /\ c.operator \notin {"<", "<=", ">", ">=", "==", "!=", "is nil", "is not nil"}
    \/ c.condition_type = "Not" /\ HasUnknownToken(c.condition)
    \/ /\ c.condition_type \in {"And", "Or"}
       /\ \E i \in 1..Len(c.conditions) : HasUnknownToken(c.conditions[i])

\* C18. Evaluating a condition that contains an unknown condition_type or a
\* comparison with an unknown operator, at the top or nested inside And, Or
\* or Not, raises an error for every entity and time; it never yields true
\* or false.
C18_UnknownTokenRaises ==
    (probe.op = "evaluate" /\ HasUnknownToken(probe.condition)) => probe.result = "error"

\* C19. Failure isolation: when a process call of engine e for entity X,
\* which no other engine has run, fails (no Initial state, unknown target,
\* iteration cap), every other entity Y is exactly as before, no other
\* engine has changed, and what another engine produces for a Y that e has
\* not run is, at any time, what it would have produced without the call.
C19_FailureIsolation ==
    [][(/\ log' # log
        /\ lastCall'.outcome \in {"error: no Initial", "error: not found",
                                  "error: max iterations"}
        /\ OnlyOn(lastCall'.person, lastCall'.engine))
          => /\ engines' = engines
             /\ \A y \in PersonIds \ {lastCall'.person} :
                   /\ persons'[y] = persons[y]
                   /\ \A e2 \in 1..Len(engines) \ {lastCall'.engine} :
                         /\ instances'[e2] = instances[e2]
                         /\ \A t2 \in Times :
                               NeverOn(y, lastCall'.engine)
                                  => Produces(instances', e2, persons'[y], t2, nextId)
                                        = Produces(instances, e2, persons[y], t2, nextId)]_vars

\* the call for person 1 ran into the iteration cap after person 2 had been
\* processed by another engine, and person 1 keeps what the failed walk wrote
C19_Witness ==
    /\ lastCall.op = "process"
    /\ lastCall.person = 1
    /\ lastCall.outcome = "error: max iterations"
    /\ OnlyOn(1, lastCall.engine)
    /\ Len(log[2]) > 0
    /\ NeverOn(2, lastCall.engine)
    /\ "marked" \in DOMAIN persons[1].attributes

\* C15. Lazy supplier cache: nothing is read before the first call; once a
\* getModule() has completed, every further getModule() returns that same
\* instance without reading the source, whatever the source has become;
\* the first getModule() after clearCache(), called directly or by
\* getEngine(), reads the source again; and a
\* getEngine() never returns an engine that was cached when clearCache()
\* was called.
C15_LazyCache ==
    [][/\ probe'.reads > probe.reads => probe.asked
       /\ (GetModuleCall /\ probe.firstDone # 0)
             => /\ probe'.last.call = "getModule"
                /\ probe'.last.value = probe.firstDone
                /\ probe'.pending = probe.pending
       /\ (GetModuleCall /\ probe.cleared) => Len(probe'.pending) = Len(probe.pending) + 1
       /\ (probe'.last # probe.last /\ probe'.last.call = "getEngine")
             => probe'.last.value \notin probe'.staleEngines]_vars

\* C20. A parsed source without name or without states is rejected:
\* getModule() fails, caches nothing and no engine is built from it, and
\* loadModule returns a non-empty errors list and registers no module.
C20_LoadRejects ==
    [][/\ \A i \in 1..Len(probe.pending) :
             (/\ Resume(i)
              /\ probe.pending[i].module = 0
              /\ ~(probe.pending[i].json.hasName /\ probe.pending[i].json.hasStates))
                => /\ probe'.last.threw
                   /\ probe'.cachedModule = probe.cachedModule
                   /\ probe'.cachedEngine = probe.cachedEngine
                   /\ probe'.modules = probe.modules
                   /\ probe'.built = probe.built
       /\ \A bySupplier \in BOOLEAN :
             (LoadModule(bySupplier) /\ ~(probe.file.hasName /\ probe.file.hasStates))
                => /\ probe'.last.errors # <<>>
                   /\ probe'.loaded = probe.loaded]_vars

\* the supplier read a source without states, its getModule() failed and
\* nothing is cached; loadModule of the same source then returned errors
\* and registered nothing
C20_Witness ==
    /\ probe.op = "loadModule"
    /\ probe.file.version = 1
    /\ probe.file.hasName /\ ~probe.file.hasStates
    /\ probe.reads > 0
    /\ probe.pending = <<>>
    /\ probe.modules = <<>>
    /\ probe.cachedModule = 0
    /\ probe.last.errors # <<>>
    /\ probe.loaded = {}

\* C21: two Random instances constructed with the same integer seed return
\* the same k-th random() value for every k, and the same derived integer
\* when the k-th call is the same randomInt call, whatever other instances,
\* globalRandom and the clock did in between.
C21_SeedDeterminesStream ==
    \A i, j \in 1..Len(probe.streams) :
        probe.streams[i].seed0 = probe.streams[j].seed0 =>
            \A k \in 1..Len(probe.streams[i].out) :
                k <= Len(probe.streams[j].out) =>
                    LET a == probe.streams[i].out[k]
                        b == probe.streams[j].out[k]
                    IN  /\ a.value = b.value
                        /\ (a.op = b.op /\ a.n = b.n) => a.result = b.result

\* two instances of one seed have both drawn twice, the global instance has
\* drawn in between and the clock has moved
C21_Witness ==
    /\ Len(probe.streams) = 3
    /\ probe.streams[2].seed0 = probe.streams[3].seed0
    /\ Len(probe.streams[2].out) >= 2
    /\ Len(probe.streams[3].out) >= 2
    /\ Len(probe.streams[1].out) >= 1
    /\ probe.streams[2].out[2].op = "randomInt"
    /\ probe.streams[3].out[2].op = "randomInt"
    /\ probe.streams[2].out[2].n = probe.streams[3].out[2].n
    /\ probe.clock > 0

\* the entries the condition asks about
EntriesAsked ==
    IF probe.condition.condition_type = "Active Condition"
    THEN probe.person.record.conditions ELSE probe.person.record.medications

\* C22: an Active Condition (Active Medication) condition is true at t
\* exactly when the record holds an entry of that kind with a matching
\* coding, a start at or before t and an end that is absent or after t,
\* whatever the entry's other fields and whatever the value of its end.
C22_ActiveIff ==
    probe.op = "evaluate" =>
        (probe.result = "true" <=>
            \E i \in 1..Len(EntriesAsked) :
                LET entry == EntriesAsked[i]
                IN  /\ codesMatch(entry, probe.condition)
                    /\ entry.startTime <= probe.time
                    /\ (~Has(entry, "endTime") \/ entry.endTime > probe.time))

\* C23: every process call made while generating a person runs on an engine
\* that is a clone, and no engine processes two persons.
C23_OwnClonePerPerson ==
    \A p \in PersonIds : \A i \in 1..Len(log[p]) :
        /\ engines[log[p][i].engine].isClone
        /\ \A q \in PersonIds \ {p} : \A j \in 1..Len(log[q]) :
              log[q][j].engine # log[p][i].engine

\* C24: a process call whose walk processed a state of type Terminal and
\* returned leaves the run context without a current state.
C24_TerminalClearsPointer ==
    (lastCall.op = "process" /\ lastCall.sawTerminal /\ ~IsError(lastCall.outcome))
        => CtxOf(lastCall.person, contextKey(engines[lastCall.engine].module)).cur = NoState

\* C27: no name in the history of any run context is the name of a state of
\* type Terminal.
C27_TerminalNotInHistory ==
    \A p \in PersonIds, e \in 1..Len(engines) :
        LET c == CtxOf(p, contextKey(engines[e].module))
        IN  \A i \in 1..Len(c.history) :
                engines[e].module.states[c.history[i]].type # "Terminal"

\* a walk went through advancing states into a Terminal state and recorded
\* the states before it
C27_Witness ==
    /\ lastCall.op = "process"
    /\ lastCall.sawTerminal
    /\ lastCall.last.cont = "false"
    /\ lastCall.iterations >= 3
    /\ LET c == CtxOf(lastCall.person, contextKey(engines[lastCall.engine].module))
       IN  /\ Len(c.history) >= 2
           /\ TypeAt(c.cur) = "Terminal"

\* the names of a list in the order of their first occurrence
RECURSIVE FirstOccurrences(_, _, _)
FirstOccurrences(trace, i, acc) ==
    IF i > Len(trace) THEN acc
    ELSE FirstOccurrences(trace, i + 1,
                          IF InSeq(acc, trace[i]) THEN acc ELSE Append(acc, trace[i]))

\* C26: in every run context the history has no name twice, holds exactly
\* the names of the states that have advanced at least once, and lists them
\* in the order of their first advance (for every run of fewer than
\* MaxTrace advances, whose advances are all on record).
C26_HistoryInvariant ==
    \A p \in PersonIds : \A key \in DOMAIN persons[p].ctx :
        LET c == persons[p].ctx[key]
        IN  /\ \A i, j \in 1..Len(c.history) : c.history[i] = c.history[j] => i = j
            /\ Len(c.trace) < MaxTrace =>
                  /\ {c.history[i] : i \in 1..Len(c.history)}
                        = {c.trace[i] : i \in 1..Len(c.trace)}
                  /\ c.history = FirstOccurrences(c.trace, 1, <<>>)

\* a state has advanced more than once in a run that went over several calls
C26_Witness ==
    \E p \in PersonIds : \E key \in DOMAIN persons[p].ctx :
        LET c == persons[p].ctx[key]
        IN  /\ Len(log[p]) >= 2
            /\ Len(c.history) >= 3
            /\ Len(c.trace) > Len(c.history)

\* the k-th value of the sequence generated from a seed
RECURSIVE NthValue(_, _)
NthValue(s, k) == IF k = 0 THEN s ELSE RandomNext(NthValue(s, k - 1))

NoTargetAt(name, person, time) ==
    LET def == engines[1].module.states[name]
    IN  /\ TransitionKind(def) \in {"conditional", "complex"}
        /\ Follow(def, person, time).kind = "null"

\* C28: when a state advances in a process call and its Conditional or
\* Complex transition returns no target, that state is the last one the
\* call processed, the call raises no error, and the current-state pointer
\* is on that state afterwards.
C28_DeadEnd ==
    [][\A p \in PersonIds, t \in Times :
          DeadEndProcess(p, t) =>
            LET key == contextKey(engines[1].module)
                c1 == persons'[p].ctx[key]
            IN  \A n \in lastCall'.advanced :
                    NoTargetAt(n, persons'[p], t) =>
                        /\ lastCall'.last = [name |-> n, eng |-> 1, cont |-> "true"]
                        /\ c1.cur.name = n
                        /\ ~IsError(lastCall'.outcome)]_vars

\* C29: a process call whose last state advanced and whose transition
\* returned a name that is not a state of the engine fails with the
\* not-found error, which names that state and the module; and no call
\* fails with that error on a module for which validate() returns no errors.
C29_MissingTarget ==
    lastCall.op = "process" =>
        LET module == engines[lastCall.engine].module
            def == module.states[lastCall.last.name]
            next == Follow(def, persons[lastCall.person], lastCall.time)
        IN  /\ (/\ lastCall.last.cont = "true"
                /\ def.type # "Terminal"
                /\ TransitionKind(def) # "none"
                /\ next.kind = "target"
                /\ next.target \notin NamesOf(module))
                  => /\ lastCall.outcome = "error: not found"
                     /\ lastCall.missing = [state |-> next.target, module |-> module.name]
            /\ lastCall.outcome = "error: not found" => validate(module) # <<>>

\* a walk went through a weighted choice into the Complex transition whose
\* weighted option names a missing state, and failed there
C29_Witness ==
    /\ lastCall.op = "process"
    /\ lastCall.outcome = "error: not found"
    /\ lastCall.last.name = "Branch"
    /\ lastCall.missing.state = "Missing"
    /\ Len(validate(engines[lastCall.engine].module)) = 1

\* C30: every process call ends, returning or raising, after processing at
\* most 1000 states.
C30_BoundedCall ==
    lastCall.op = "process" =>
        /\ lastCall.iterations <= maxIterations
        /\ lastCall.outcome \in {"stall", "terminal", "no transition", "dead end",
                                 "error: state", "error: condition", "error: not found",
                                 "error: no Initial", "error: max iterations"}
        /\ lastCall.iterations = maxIterations
              => (lastCall.outcome = "error: max iterations" \/ IsError(lastCall.outcome))

\* a cycle of always-advancing states was cut off at the cap
C30_Witness ==
    /\ lastCall.op = "process"
    /\ engines[lastCall.engine].module.name = "Cycle"
    /\ lastCall.iterations = maxIterations
    /\ lastCall.outcome = "error: max iterations"
    /\ lastCall.last.cont = "true"

\* a state of the module whose top-level distributed_transition has weights
\* that do not sum to 1.0
BadTopLevelWeights(module) ==
    {n \in NamesOf(module) :
        /\ Has(module.states[n], "distributed_transition")
        /\ ~WeightsOk(module.states[n].distributed_transition)}

\* C31: a constructor call on a module one of whose transitions is built
\* from a weight set that does not sum to 1.0 fails; and for a module with a
\* bad top-level Distributed weight set the constructor call leaves an
\* engine whose validate() lists the violation for each such state.
C31_WeightViolations ==
    [][\A m \in ValidateModules :
          Construct(m) =>
            /\ (\E n \in NamesOf(m) : TransitionThrows(m.states[n]))
                  => lastCall'.outcome = "error: constructor"
            /\ BadTopLevelWeights(m) # {} =>
                  /\ Len(engines') = 1
                  /\ \A n \in BadTopLevelWeights(m) :
                        \E i \in 1..Len(validate(engines'[1].module)) :
                            validate(engines'[1].module)[i]
                                = [kind |-> "weights", state |-> n, target |-> ""]]_vars

\* sixteen times the days of a unit at the ratios 1 year = 365.25 days,
\* 1 month = 30.4375 days, 1 week = 7 days
DaysPerUnit16(unit) ==
    CASE unit = "years" -> 5844
      [] unit = "months" -> 487
      [] unit = "weeks" -> 112
      [] unit = "days" -> 16

\* C32: for every unit the result of an Age condition equals the comparison
\* of the age in days with quantity * (days per unit), a week being 7 days,
\* a month 30.4375 days and a year 365.25 days (both sides times
\* 16 * MsPerDay).
C32_AgeRatios ==
    (probe.op = "evaluate" /\ probe.result # "error") =>
        LET c == probe.condition
            unit == IF Has(c, "unit") THEN c.unit ELSE "years"
        IN  probe.result =
                evaluateNumericCondition(
                    Num(CompareProducts(probe.time - probe.person.birthDate, 16,
                                        c.quantity * DaysPerUnit16(unit), MsPerDay)),
                    c.operator, Num(0))

IsPrefix(a, b) == Len(a) <= Len(b) /\ \A i \in 1..Len(a) : a[i] = b[i]

RecordKinds == {"encounters", "conditions", "medications"}

\* C33: a process call leaves every collection of every person's record
\* with the entries it had, unchanged and in the same order, at the front.
C33_RecordAppendOnly ==
    [][\A p \in PersonIds : \A k \in RecordKinds :
          IsPrefix(persons[p].record[k], persons'[p].record[k])]_vars

\* a record of two conditions and two encounters, appended in two calls,
\* whose person's attribute no longer refers to any encounter
C33_Witness ==
    \E p \in PersonIds :
        /\ Len(persons[p].record.conditions) = 2
        /\ Len(persons[p].record.encounters) = 2
        /\ persons[p].record.encounters[2].reason = <<CodeA>>
        /\ persons[p].record.encounters[1].startTime
              < persons[p].record.encounters[2].startTime
        /\ persons[p].attributes["current_encounter"] = Num(0)
        /\ Len(log[p]) >= 2

\* C34: a process call for a person whose previous call ended on a state
\* with an effect that had advanced (no transition, or a transition that
\* returned no target) does not process that state again; and after a dead
\* end the call leaves the person's record as it was.
C34_EffectOncePerVisit ==
    [][\A p \in PersonIds, t \in Times :
          (/\ RecordProcess(p, t)
           /\ lastCall.op = "process"
           /\ lastCall.person = p
           /\ lastCall.last.cont = "true"
           /\ lastCall.outcome \in {"dead end", "no transition"}
           /\ engines[1].module.states[lastCall.last.name].type \in EffectKinds) =>
              /\ lastCall.last.name \notin lastCall'.advanced
              /\ lastCall.outcome = "dead end" =>
                    persons'[p].record = persons[p].record]_vars

\* C35: a run that comes back, in a process call, to a Delay state with a
\* positive duration that it had already passed does not advance past it in
\* that call; it rests there with a resume instant computed from the time
\* of that call: that time plus the Delay's duration, on clones and on
\* constructed engines alike.
C35_FreshDelayOnReentry ==
    [][\A e \in 1..Len(engines), p \in PersonIds, t \in Times :
          Process(e, p, t) =>
            LET key == contextKey(engines[e].module)
                c0 == CtxOf(p, key)
                c1 == persons'[p].ctx[key]
                states == engines[e].module.states
            IN  /\ \A i \in (Len(c0.trace) + 2)..Len(c1.trace) :
                      ~(/\ states[c1.trace[i]].type = "Delay"
                        /\ Has(states[c1.trace[i]], "exact")
                        /\ DelayMs(states[c1.trace[i]]) > 0
                        /\ \E j \in 1..(i - 1) : c1.trace[j] = c1.trace[i])
                /\ (/\ c1.cur.eng # 0
                    /\ states[c1.cur.name].type = "Delay"
                    /\ Has(states[c1.cur.name], "exact")
                    /\ InSeq(c1.history, c1.cur.name)
                    /\ c1.arrived = t) =>
                       (IF c1.cur.shared THEN instances'[c1.cur.eng][c1.cur.name]
                        ELSE c1.cur.rt).next
                           = Num(t + DelayMs(states[c1.cur.name]))]_vars

\* entries and attribute values without the generated identifiers
StripEntries(entries) ==
    [i \in 1..Len(entries) |-> [k \in DOMAIN entries[i] \ {"id"} |-> entries[i][k]]]

StripValue(v) == IF v.t = "object" THEN Obj(0) ELSE v

\* what a person has become under the module of engine 1, the State
\* objects being as in inst: history, current state and its Delay instants,
\* attributes and record
ServeView(person, inst) ==
    LET key == contextKey(engines[1].module)
        c == IF key \in DOMAIN person.ctx THEN person.ctx[key] ELSE NewContext
        rt == IF c.cur.eng = 0 THEN FreshRt
              ELSE IF c.cur.shared THEN inst[c.cur.eng][c.cur.name] ELSE c.cur.rt
    IN  [history |-> c.history, cur |-> c.cur.name,
         entered |-> rt.entered, next |-> rt.next,
         attributes |-> [a \in DOMAIN person.attributes |-> StripValue(person.attributes[a])],
         record |-> [k \in RecordKinds |-> StripEntries(person.record[k])]]

\* C36: whenever no call is in flight for a person, the person has the
\* history, current state, Delay instants, attributes and record (up to the
\* generated identifiers) that the same calls give when each runs alone to
\* its end, however the calls of the two persons on the one constructed
\* engine were interleaved at their awaits.
C36_ServesSeveral ==
    Len(engines) = 1 =>
        \A p \in PersonIds :
            probe.flight[p] = <<>> =>
                ServeView(persons[p], instances) = ServeView(probe.solo[p], probe.soloInst[p])

\* both persons were run on the looping record module in calls that
\* overlapped, and both wait on its Delay with a record of their own
C36_Witness ==
    /\ Len(engines) = 1
    /\ engines[1].module.name = "Record Loop"
    /\ probe.overlapped
    /\ \A p \in PersonIds :
          /\ probe.flight[p] = <<>>
          /\ Len(persons[p].record.encounters) >= 1
          /\ ServeView(persons[p], instances).cur = "Wait"
          /\ ~Falsy(ServeView(persons[p], instances).next)
    /\ ServeView(persons[1], instances).next # ServeView(persons[2], instances).next
\* the continuation of pending call i stores a module it has parsed
StoresModule(i) ==
    /\ Resume(i)
    /\ probe.pending[i].module = 0
    /\ ~SourceRejected(probe.pending[i].json)

\* C37. clearCache() is not undone by a load in flight: a getModule() that
\* had read the source when clearCache() was called does not write the
\* cache afterwards; a getModule() answered from the cache never returns
\* content read before a clearCache() that preceded it; and no getModule()
\* replaces a cached module by another instance.
C37_InvalidationHolds ==
    [][/\ \A i \in 1..Len(probe.pending) :
             (StoresModule(i) /\ probe.pending[i].stale)
                => probe'.cachedModule = probe.cachedModule
       /\ (GetModuleCall /\ probe.cachedModule # 0)
             => probe'.last.value \notin probe.staleModules
       /\ \A i \in 1..Len(probe.pending) :
             (StoresModule(i) /\ probe.cachedModule # 0)
                => probe'.cachedModule = probe.cachedModule]_vars

\* value === null || value === undefined
IsNil(value) == value.t \in {"null", "undefined"}

\* C38. An Attribute condition with operator 'is nil' is true exactly when
\* the attribute is unset or null, and one with 'is not nil' exactly when it
\* holds any other value, of whatever type.
C38_NilOperators ==
    (probe.op = "evaluate" /\ probe.condition.operator \in NilOperators)
       => probe.result = B(IsNil(AttrGet(probe.person, probe.condition.attribute))
                              = (probe.condition.operator = "is nil"))

\* C39. Run contexts are per module: a process call of the engine of module
\* M for a person creates or updates only the run context kept under the
\* key of M; the run contexts the person holds for modules of other names,
\* and the State objects of the other engines, are as before the call.
C39_ContextsPerModule ==
    [][(lastCall'.op = "process" /\ log' # log)
          => LET e == lastCall'.engine
                 p == lastCall'.person
                 own == contextKey(engines[e].module)
             IN  /\ DOMAIN persons'[p].ctx \subseteq DOMAIN persons[p].ctx \cup {own}
                 /\ \A n \in DOMAIN persons[p].ctx \ {own} :
                        /\ n \in DOMAIN persons'[p].ctx
                        /\ persons'[p].ctx[n] = persons[p].ctx[n]
                 /\ \A e2 \in (1..Len(engines)) \ {e} : instances'[e2] = instances[e2]]_vars

====
